---- MODULE Spec2Model ----
(***************************************************************************)
(* Model of the response evaluation engine (src/evaluator.py,              *)
(* class ChatbotEvaluator).                                                *)
(*                                                                         *)
(* Units.  A score is an integer number of hundredths (50 is 0.5), which   *)
(* is what round(score, 2) returns.  A latency is an integer number of     *)
(* tenths of a second (35 is 3.5 s).  A temperature is an integer number   *)
(* of tenths of a degree (100 is 10.0 degrees).                            *)
(*                                                                         *)
(* Python values whose type the code does not control (the weather         *)
(* snapshot, the preference state and the optional telemetry) are records  *)
(* tagged with their Python type; a call that would raise in Python yields *)
(* a record with an "exc" field instead of a metric result.                *)
(*                                                                         *)
(* The chat handlers that call the engine (src/GADK/app.py and             *)
(* src/comparison_app.py) cache an agent and a runner per user; a          *)
(* last_updated timestamp is the value of a clock that every save of a     *)
(* preference file advances, 0 when the file has none.                     *)
(***************************************************************************)
EXTENDS Integers, Sequences, FiniteSets, TLC

VARIABLES evaluators, calls, _agent_cache, _runner_cache, preferences_files, clock, requests,
          PREFERENCES_DIR, _ms_preferences_manager, learning, threads

\* The state of the chat handlers.
\* The state of the preference stores: the files of the GADK store, the
\* preferences of the MS manager, and the learning call that ended last.
store_vars == <<PREFERENCES_DIR, _ms_preferences_manager, learning>>

app_vars == <<_agent_cache, _runner_cache, preferences_files, clock, requests, store_vars,
              threads>>

vars == <<evaluators, calls, _agent_cache, _runner_cache, preferences_files, clock, requests,
          PREFERENCES_DIR, _ms_preferences_manager, learning, threads>>

----------------------------------------------------------------------------
(* Python values *)

PyNone == [t |-> "NoneType"]
PyStr(s) == [t |-> "str", v |-> s]
PyNum(n) == [t |-> "number", v |-> n]
PyDict(d) == [t |-> "dict", v |-> d]
PyList(q) == [t |-> "list", v |-> q]
PyBool(b) == [t |-> "bool", v |-> b]

\* bool(x): None, "", 0, False, {} and [] are false.
Truthy(x) ==
    CASE x.t = "NoneType" -> FALSE
      [] x.t = "str" -> x.v # ""
      [] x.t = "number" -> x.v # 0
      [] x.t = "bool" -> x.v
      [] x.t = "dict" -> DOMAIN x.v # {}
      [] x.t = "list" -> Len(x.v) > 0

\* dict.get(k, default) on the mapping d.
Get(d, k, default) == IF k \in DOMAIN d THEN d[k] ELSE default

\* The result of a call that raises.
Raise(e) == [exc |-> e]
Raised(r) == "exc" \in DOMAIN r

----------------------------------------------------------------------------
(* Text primitives: str methods and the re patterns the scorers use *)

UpperLetters == "ABCDEFGHIJKLMNOPQRSTUVWXYZ"
LowerLetters == "abcdefghijklmnopqrstuvwxyz"
Digits == "0123456789"

Char(t, i) == SubSeq(t, i, i)

\* Position of the character c in the alphabet a, 0 when absent.
IndexIn(a, c) ==
    IF \E i \in 1..Len(a) : Char(a, i) = c
    THEN CHOOSE i \in 1..Len(a) : Char(a, i) = c
    ELSE 0

IsSpace(c) == c \in {" ", "\t", "\n", "\r"}

\* The case mappings of the ASCII letters, as lookup tables.
ToLower == [c \in {Char(UpperLetters, i) : i \in 1..Len(UpperLetters)} |->
               Char(LowerLetters, IndexIn(UpperLetters, c))]
ToUpper == [c \in {Char(LowerLetters, i) : i \in 1..Len(LowerLetters)} |->
               Char(UpperLetters, IndexIn(LowerLetters, c))]
DigitValue == [c \in {Char(Digits, i) : i \in 1..Len(Digits)} |-> IndexIn(Digits, c) - 1]

IsDigit(c) == c \in DOMAIN DigitValue
IsLetter(c) == c \in DOMAIN ToLower \/ c \in DOMAIN ToUpper

LowerChar(c) == IF c \in DOMAIN ToLower THEN ToLower[c] ELSE c
UpperChar(c) == IF c \in DOMAIN ToUpper THEN ToUpper[c] ELSE c

\* str.lower(), character by character (by halves, which keeps the recursion
\* shallow on long texts).
RECURSIVE Lower(_)
Lower(t) ==
    IF Len(t) = 0 THEN ""
    ELSE IF Len(t) = 1 THEN LowerChar(t)
    ELSE Lower(SubSeq(t, 1, Len(t) \div 2)) \o Lower(SubSeq(t, Len(t) \div 2 + 1, Len(t)))

\* str.title(): the first letter of every run of letters in upper case, the
\* other letters in lower case.
RECURSIVE TitleFrom(_, _)
TitleFrom(t, inWord) ==
    IF t = "" THEN ""
    ELSE LET c == Char(t, 1) IN
         (IF ~IsLetter(c) THEN c ELSE IF inWord THEN LowerChar(c) ELSE UpperChar(c))
            \o TitleFrom(SubSeq(t, 2, Len(t)), IsLetter(c))
Title(t) == TitleFrom(t, FALSE)

\* k in t
Contains(t, k) == \E i \in 1..(Len(t) - Len(k) + 1) : SubSeq(t, i, i + Len(k) - 1) = k

\* t.find(k): the lowest 0-based index of k in t, or -1.
Find(t, k) ==
    IF Contains(t, k)
    THEN (CHOOSE i \in 1..(Len(t) - Len(k) + 1) :
             /\ SubSeq(t, i, i + Len(k) - 1) = k
             /\ \A j \in 1..(i - 1) : SubSeq(t, j, j + Len(k) - 1) # k) - 1
    ELSE -1

\* any(kw in t for kw in kws)
AnyIn(t, kws) == \E i \in 1..Len(kws) : Contains(t, kws[i])

\* sum(1 for kw in kws if kw in t)
CountIn(t, kws) == Cardinality({i \in 1..Len(kws) : Contains(t, kws[i])})

\* len(t.strip())
StripLen(t) ==
    LET ink == {i \in 1..Len(t) : ~IsSpace(Char(t, i))} IN
    IF ink = {} THEN 0
    ELSE (CHOOSE i \in ink : \A j \in ink : j <= i)
         - (CHOOSE i \in ink : \A j \in ink : j >= i) + 1

\* t.split(): the maximal runs of non-space characters, in order.
RECURSIVE SplitFrom(_, _, _)
SplitFrom(t, i, word) ==
    IF i > Len(t) THEN (IF word = "" THEN <<>> ELSE <<word>>)
    ELSE IF IsSpace(Char(t, i))
         THEN (IF word = "" THEN <<>> ELSE <<word>>) \o SplitFrom(t, i + 1, "")
         ELSE SplitFrom(t, i + 1, word \o Char(t, i))
Split(t) == SplitFrom(t, 1, "")

\* bool(re.search(r'\d+', t))
HasDigit(t) == \E i \in 1..Len(t) : IsDigit(Char(t, i))

\* ', '.join(q)
RECURSIVE Join(_)
Join(q) ==
    IF Len(q) = 0 THEN ""
    ELSE IF Len(q) = 1 THEN q[1]
    ELSE q[1] \o ", " \o Join(Tail(q))

\* q[:2]
FirstTwo(q) == IF Len(q) <= 2 THEN q ELSE SubSeq(q, 1, 2)

\* round(x, 2) of the non-negative rational n/d given in hundredths.  No
\* latency on the tenth-of-a-second grid produces a tie.
Round(n, d) == (2 * n + d) \div (2 * d)

Min(a, b) == IF a <= b THEN a ELSE b
Max(a, b) == IF a >= b THEN a ELSE b
\* Variant without the final clamp of a score.
Clamp_absent(s) == s
\* max(0.0, min(1.0, score))
Clamp(s) == Max(0, Min(100, s))

----------------------------------------------------------------------------
(* Response-time and tool-call-count scorers *)

\* f'{response_time:.2f}' for a latency in tenths of a second.
FormatSeconds(t) == ToString(t \div 10) \o "." \o ToString(t % 10) \o "0"

\* Variant whose slow branch has no floor of 0.3.
_evaluate_response_time_no_floor(response_time) ==
    IF response_time.t = "NoneType"
    THEN [score |-> 50,
          time_seconds |-> PyNone,
          details |-> "Response time not available",
          efficiency_level |-> "unknown"]
    ELSE
    LET t == response_time.v
        \* the score before rounding, in hundredths, as the fraction num/den
        num == IF t < 20 THEN 100
               ELSE IF t < 50 THEN 90 * 3 - (t - 20) * 2
               ELSE IF t < 100 THEN 70 * 5 - (t - 50) * 2
               ELSE 50 * 5 - (t - 100)
        den == IF t < 20 THEN 1
               ELSE IF t < 50 THEN 3
               ELSE 5
        efficiency_level == IF t < 20 THEN "excellent"
                            ELSE IF t < 50 THEN "good"
                            ELSE IF t < 100 THEN "acceptable"
                            ELSE "slow"
        score == Max(0, Min(100 * den, num))
    IN [score |-> Round(score, den),
        time_seconds |-> PyNum(t),
        details |-> "Response time: " \o FormatSeconds(t) \o "s ("
                        \o efficiency_level \o ")",
        efficiency_level |-> efficiency_level]

_evaluate_response_time(response_time) ==
    IF response_time.t = "NoneType"
    THEN [score |-> 50,
          time_seconds |-> PyNone,
          details |-> "Response time not available",
          efficiency_level |-> "unknown"]
    ELSE
    LET t == response_time.v
        \* the score before rounding, in hundredths, as the fraction num/den
        num == IF t < 20 THEN 100
               ELSE IF t < 50 THEN 90 * 3 - (t - 20) * 2
               ELSE IF t < 100 THEN 70 * 5 - (t - 50) * 2
               ELSE Max(30 * 5, 50 * 5 - (t - 100))
        den == IF t < 20 THEN 1
               ELSE IF t < 50 THEN 3
               ELSE 5
        efficiency_level == IF t < 20 THEN "excellent"
                            ELSE IF t < 50 THEN "good"
                            ELSE IF t < 100 THEN "acceptable"
                            ELSE "slow"
        score == Max(0, Min(100 * den, num))
    IN [score |-> Round(score, den),
        time_seconds |-> PyNum(t),
        details |-> "Response time: " \o FormatSeconds(t) \o "s ("
                        \o efficiency_level \o ")",
        efficiency_level |-> efficiency_level]

\* Variant that counts up to three calls as optimal.
_evaluate_tool_call_count_wide_optimal(tool_call_count) ==
    IF tool_call_count.t = "NoneType"
    THEN [score |-> 50,
          count |-> PyNone,
          details |-> "Tool call count not available",
          efficiency_level |-> "unknown"]
    ELSE
    LET n == tool_call_count.v
        score == IF n = 0 THEN 50
                 ELSE IF n <= 3 THEN 100
                 ELSE IF n <= 4 THEN 80
                 ELSE IF n <= 6 THEN 60
                 ELSE 40
        efficiency_level == IF n = 0 THEN "no_calls"
                            ELSE IF n <= 3 THEN "optimal"
                            ELSE IF n <= 4 THEN "good"
                            ELSE IF n <= 6 THEN "acceptable"
                            ELSE "inefficient"
    IN [score |-> score,
        count |-> PyNum(n),
        details |-> ToString(n) \o " tool call(s) (" \o efficiency_level \o ")",
        efficiency_level |-> efficiency_level]

\* Variant that reads an absent count as zero calls.
_evaluate_tool_call_count_absent_as_zero(tool_call_count) ==
    LET n == IF tool_call_count.t = "NoneType" THEN 0 ELSE tool_call_count.v
        score == IF n = 0 THEN 50
                 ELSE IF n <= 2 THEN 100
                 ELSE IF n <= 4 THEN 80
                 ELSE IF n <= 6 THEN 60
                 ELSE 40
        efficiency_level == IF n = 0 THEN "no_calls"
                            ELSE IF n <= 2 THEN "optimal"
                            ELSE IF n <= 4 THEN "good"
                            ELSE IF n <= 6 THEN "acceptable"
                            ELSE "inefficient"
    IN [score |-> score,
        count |-> PyNum(n),
        details |-> ToString(n) \o " tool call(s) (" \o efficiency_level \o ")",
        efficiency_level |-> efficiency_level]

_evaluate_tool_call_count(tool_call_count) ==
    IF tool_call_count.t = "NoneType"
    THEN [score |-> 50,
          count |-> PyNone,
          details |-> "Tool call count not available",
          efficiency_level |-> "unknown"]
    ELSE
    LET n == tool_call_count.v
        score == IF n = 0 THEN 50
                 ELSE IF n <= 2 THEN 100
                 ELSE IF n <= 4 THEN 80
                 ELSE IF n <= 6 THEN 60
                 ELSE 40
        efficiency_level == IF n = 0 THEN "no_calls"
                            ELSE IF n <= 2 THEN "optimal"
                            ELSE IF n <= 4 THEN "good"
                            ELSE IF n <= 6 THEN "acceptable"
                            ELSE "inefficient"
    IN [score |-> score,
        count |-> PyNum(n),
        details |-> ToString(n) \o " tool call(s) (" \o efficiency_level \o ")",
        efficiency_level |-> efficiency_level]

----------------------------------------------------------------------------
(* Accuracy scorer *)

\* Index of the last character of the longest run of digits starting at i.
RECURSIVE DigitRunEnd(_, _)
DigitRunEnd(t, i) ==
    IF i + 1 <= Len(t) /\ IsDigit(Char(t, i + 1)) THEN DigitRunEnd(t, i + 1) ELSE i

\* Index of the last character matched by \d+(?:\.\d+)? at the digit t[i].
NumberEnd(t, i) ==
    LET e == DigitRunEnd(t, i) IN
    IF e + 2 <= Len(t) /\ Char(t, e + 1) = "." /\ IsDigit(Char(t, e + 2))
    THEN DigitRunEnd(t, e + 2)
    ELSE e

\* First index at or after i that \s* does not consume.
RECURSIVE SkipSpaces(_, _)
SkipSpaces(t, i) ==
    IF i <= Len(t) /\ IsSpace(Char(t, i)) THEN SkipSpaces(t, i + 1) ELSE i

\* First index at or after i that [:\s]* does not consume.
RECURSIVE SkipColonsAndSpaces(_, _)
SkipColonsAndSpaces(t, i) ==
    IF i <= Len(t) /\ (IsSpace(Char(t, i)) \/ Char(t, i) = ":")
    THEN SkipColonsAndSpaces(t, i + 1)
    ELSE i

\* t starts with k at index i.
StartsAt(t, i, k) == i >= 1 /\ i + Len(k) - 1 <= Len(t) /\ SubSeq(t, i, i + Len(k) - 1) = k

\* Does the text from index a on complete temp_patterns[p]?
\*   1: °?c    2: degrees?\s*(?:celsius|centigrade)    4: °
UnitAt(t, a, p) ==
    CASE p = 1 -> StartsAt(t, IF StartsAt(t, a, "°") THEN a + 1 ELSE a, "c")
      [] p = 2 -> LET b == SkipSpaces(t, IF StartsAt(t, a + 6, "s") THEN a + 7 ELSE a + 6)
                  IN /\ StartsAt(t, a, "degree")
                     /\ StartsAt(t, b, "celsius") \/ StartsAt(t, b, "centigrade")
      [] p = 4 -> StartsAt(t, a, "°")

\* Does the text after a number ending at index e complete temp_patterns[p],
\* after \s* ?
SuffixMatches(t, e, p) == UnitAt(t, SkipSpaces(t, e + 1), p)

\* The least element of a set of indices.
Least(S) == CHOOSE i \in S : \A j \in S : i <= j

\* The indices at which temp_patterns[p] matches; pattern 3 is
\* temperature[:\s]+(\d+(?:\.\d+)?).
MatchStarts(t, p) ==
    IF p = 3
    THEN {i \in 1..Len(t) :
            LET v == SkipColonsAndSpaces(t, i + 11) IN
            /\ StartsAt(t, i, "temperature")
            /\ v > i + 11 /\ v <= Len(t) /\ IsDigit(Char(t, v))}
    ELSE {i \in 1..Len(t) :
            IsDigit(Char(t, i)) /\ SuffixMatches(t, NumberEnd(t, i), p)}

\* The indices <<first, last>> of group 1 of the leftmost match, or <<>>
\* when the pattern does not match.
GroupOf(t, p, starts) ==
    IF starts = {} THEN <<>>
    ELSE LET g == IF p = 3 THEN SkipColonsAndSpaces(t, Least(starts) + 11)
                  ELSE Least(starts)
         IN <<g, NumberEnd(t, g)>>

\* re.search(temp_patterns[p], t)
SearchTemperature(t, p) == GroupOf(t, p, MatchStarts(t, p))

\* The value of a string of digits.
RECURSIVE ParseDigits(_)
ParseDigits(d) ==
    IF d = "" THEN 0
    ELSE 10 * ParseDigits(SubSeq(d, 1, Len(d) - 1)) + DigitValue[Char(d, Len(d))]

RECURSIVE Pow10(_)
Pow10(k) == IF k = 0 THEN 1 ELSE 10 * Pow10(k - 1)

\* float(s) for s matching \d+(?:\.\d+)?, as the fraction num / 10^places.
ParseFloat(s) ==
    LET dot == Find(s, ".") + 1 IN
    IF dot = 0
    THEN [num |-> ParseDigits(s), places |-> 0]
    ELSE [num |-> ParseDigits(SubSeq(s, 1, dot - 1)) * Pow10(Len(s) - dot)
                    + ParseDigits(SubSeq(s, dot + 1, Len(s))),
          places |-> Len(s) - dot]

\* The loop over temp_patterns: the first pattern that matches decides.
\* <<>> when none matches, else <<the parsed number>>.
RECURSIVE ExtractTemperatureFrom(_, _)
FloatOrNext(t, p, m) ==
    IF m # <<>> THEN <<ParseFloat(SubSeq(t, m[1], m[2]))>>
    ELSE ExtractTemperatureFrom(t, p + 1)
ExtractTemperatureFrom(t, p) ==
    IF p > 4 THEN <<>> ELSE FloatOrNext(t, p, SearchTemperature(t, p))
ExtractTemperature(t) == ExtractTemperatureFrom(t, 1)

\* str() of a float given as num / 10^places: at least one decimal, no
\* trailing zeros beyond it.
RECURSIVE FormatFloat(_, _)
FormatFloat(num, places) ==
    IF places > 1 /\ num % 10 = 0 THEN FormatFloat(num \div 10, places - 1)
    ELSE IF places = 0 THEN ToString(num) \o ".0"
    ELSE LET p == Pow10(places)
             a == IF num < 0 THEN -num ELSE num
             frac == ToString(p + (a % p))
         IN (IF num < 0 THEN "-" ELSE "") \o ToString(a \div p) \o "."
                \o SubSeq(frac, 2, Len(frac))

condition_keywords ==
    [rain |-> <<"rain", "rainy", "drizzle", "shower", "precipitation">>,
     clear |-> <<"clear", "sunny", "sun", "bright">>,
     clouds |-> <<"cloud", "cloudy", "overcast", "clouds">>,
     snow |-> <<"snow", "snowy", "snowing", "snowfall">>,
     mist |-> <<"mist", "fog", "foggy", "haze">>,
     thunderstorm |-> <<"thunder", "storm", "thunderstorm", "lightning">>]

forecast_keywords == <<"forecast", "tomorrow", "week", "upcoming", "next", "future">>

\* Variant whose mismatch penalty starts at a difference of exactly 2.
TemperaturePenalties_inclusive(found_temp, actual_temp) ==
    IF found_temp = <<>> THEN <<>>
    ELSE LET f == found_temp[1]
             scale == Pow10(f.places)
             \* |found_temp - actual_temp| in units of 1 / (10 * scale)
             d == f.num * 10 - actual_temp * scale
             temp_diff == IF d < 0 THEN -d ELSE d
             said == FormatFloat(f.num, f.places)
             actual == FormatFloat(actual_temp, 1)
         IN IF temp_diff >= 2 * 10 * scale
            THEN <<[penalty |-> 30,
                    reason |-> "Temperature mismatch: said " \o said
                                 \o "°C, actual " \o actual \o "°C"]>>
            ELSE IF temp_diff > 1 * 10 * scale
            THEN <<[penalty |-> 10,
                    reason |-> "Temperature slightly off: said " \o said
                                 \o "°C, actual " \o actual \o "°C"]>>
            ELSE <<>>

\* The temperature check of the 'current' branch: the penalties it applies,
\* each a record [penalty, reason].
TemperaturePenalties(found_temp, actual_temp) ==
    IF found_temp = <<>> THEN <<>>
    ELSE LET f == found_temp[1]
             scale == Pow10(f.places)
             \* |found_temp - actual_temp| in units of 1 / (10 * scale)
             d == f.num * 10 - actual_temp * scale
             temp_diff == IF d < 0 THEN -d ELSE d
             said == FormatFloat(f.num, f.places)
             actual == FormatFloat(actual_temp, 1)
         IN IF temp_diff > 2 * 10 * scale
            THEN <<[penalty |-> 30,
                    reason |-> "Temperature mismatch: said " \o said
                                 \o "°C, actual " \o actual \o "°C"]>>
            ELSE IF temp_diff > 1 * 10 * scale
            THEN <<[penalty |-> 10,
                    reason |-> "Temperature slightly off: said " \o said
                                 \o "°C, actual " \o actual \o "°C"]>>
            ELSE <<>>

\* The condition check of the 'current' branch.
ConditionPenalties(response_lower, actual_condition) ==
    IF actual_condition # "" /\ actual_condition \in DOMAIN condition_keywords
          /\ ~AnyIn(response_lower, condition_keywords[actual_condition])
    THEN <<[penalty |-> 20,
            reason |-> "Missing weather condition: should mention " \o actual_condition]>>
    ELSE <<>>

\* Variant that makes the forecast check for every snapshot.
ForecastPenalties_any_shape(response_lower, weather_data, user_query) ==
    IF /\ AnyIn(Lower(user_query), forecast_keywords)
       /\ ~AnyIn(response_lower, forecast_keywords)
    THEN <<[penalty |-> 20, reason |-> "Forecast query not addressed"]>>
    ELSE <<>>

\* The forecast check.
ForecastPenalties(response_lower, weather_data, user_query) ==
    IF /\ ("daily_summaries" \in DOMAIN weather_data
             \/ "detailed_forecast" \in DOMAIN weather_data)
       /\ AnyIn(Lower(user_query), forecast_keywords)
       /\ ~AnyIn(response_lower, forecast_keywords)
    THEN <<[penalty |-> 20, reason |-> "Forecast query not addressed"]>>
    ELSE <<>>

RECURSIVE SumPenalties(_)
SumPenalties(q) == IF q = <<>> THEN 0 ELSE q[1].penalty + SumPenalties(Tail(q))

\* The result for the penalties collected: the clamped score and the reasons.
AccuracyOf(penalties) ==
    LET factual_errors == [i \in 1..Len(penalties) |-> penalties[i].reason] IN
    [score |-> Clamp(100 - SumPenalties(penalties)),
     details |-> IF Len(factual_errors) > 0
                 THEN ToString(Len(factual_errors)) \o " factual issue(s) found"
                 ELSE "No factual errors detected",
     factual_errors |-> factual_errors]

\* The checks against the weather data, once the response is lower-cased.
AccuracyAgainst(response_lower, wd, user_query) ==
    IF "current" \notin DOMAIN wd
    THEN AccuracyOf(ForecastPenalties(response_lower, wd, user_query))
    \* current.get(...) on a value that is not a dict
    ELSE IF wd["current"].t # "dict" THEN Raise("AttributeError")
    ELSE
    LET actual_temp == Get(wd["current"].v, "temperature", PyNone)
        found_temp == ExtractTemperature(response_lower)
        main_condition == Get(wd["current"].v, "main_condition", PyStr(""))
    IN  \* found_temp - actual_temp with a temperature that is not a number
        IF actual_temp.t \notin {"NoneType", "number"} /\ found_temp # <<>>
        THEN Raise("TypeError")
        \* .lower() on a condition that is not a string
        ELSE IF main_condition.t # "str" THEN Raise("AttributeError")
        ELSE AccuracyOf((IF actual_temp.t = "number"
                         THEN TemperaturePenalties(found_temp, actual_temp.v) ELSE <<>>)
                        \o ConditionPenalties(response_lower, Lower(main_condition.v))
                        \o ForecastPenalties(response_lower, wd, user_query))

_evaluate_accuracy(response, weather_data, user_query) ==
    IF ~Truthy(weather_data)
    THEN [score |-> 50,
          details |-> "No weather data available for comparison",
          factual_errors |-> <<>>]
    ELSE AccuracyAgainst(Lower(response), weather_data.v, user_query)

----------------------------------------------------------------------------
(* Task-completion and recommendation-quality scorers *)

\* The tests of the scorer, once its keyword searches are made.
\* Variant that tests for a near-empty response before the error words.
CompletionOf_short_first(response, has_error, query_is_weather, has_weather_info, has_recommendations) ==
    LET score == Min(100, 50 + (IF HasDigit(response) THEN 20 ELSE 0)
                             + (IF has_recommendations THEN 20 ELSE 0)
                             + (IF Len(response) > 100 THEN 10 ELSE 0))
    IN IF StripLen(response) < 20
       THEN [score |-> 10, completed |-> FALSE, details |-> "Response too short or empty"]
       ELSE IF has_error /\ Len(response) < 100
       THEN [score |-> 20, completed |-> FALSE, details |-> "Error message detected"]
       ELSE IF query_is_weather /\ ~has_weather_info
       THEN [score |-> 40, completed |-> FALSE,
             details |-> "Weather query not properly addressed"]
       ELSE [score |-> score,
             completed |-> score >= 70,
             details |-> IF score >= 70 THEN "Task completed"
                         ELSE "Task partially completed"]

CompletionOf(response, has_error, query_is_weather, has_weather_info, has_recommendations) ==
    LET score == Min(100, 50 + (IF HasDigit(response) THEN 20 ELSE 0)
                             + (IF has_recommendations THEN 20 ELSE 0)
                             + (IF Len(response) > 100 THEN 10 ELSE 0))
    IN IF has_error /\ Len(response) < 100
       THEN [score |-> 20, completed |-> FALSE, details |-> "Error message detected"]
       ELSE IF StripLen(response) < 20
       THEN [score |-> 10, completed |-> FALSE, details |-> "Response too short or empty"]
       ELSE IF query_is_weather /\ ~has_weather_info
       THEN [score |-> 40, completed |-> FALSE,
             details |-> "Weather query not properly addressed"]
       ELSE [score |-> score,
             completed |-> score >= 70,
             details |-> IF score >= 70 THEN "Task completed"
                         ELSE "Task partially completed"]

_evaluate_task_completion(user_query, response) ==
    LET response_lower == Lower(response)
        weather_keywords == <<"weather", "temperature", "forecast", "rain", "sunny",
                              "wind", "humidity", "umbrella", "jacket", "temp", "degrees">>
    IN CompletionOf(response,
                    AnyIn(response_lower, <<"error", "sorry", "couldn't", "can't",
                                            "unable", "failed", "not available",
                                            "not found", "could not", "i'm sorry",
                                            "apologize">>),
                    AnyIn(Lower(user_query), weather_keywords),
                    AnyIn(response_lower, weather_keywords),
                    AnyIn(response_lower, <<"recommend", "suggest", "should", "umbrella",
                                            "jacket", "outdoor", "indoor", "wear", "bring",
                                            "advise", "consider">>))

\* Variant that counts two recommendation keywords as several.
RecommendationOf_two(has_recommendations, asks_for_recommendation, has_specific_items, has_reasoning, recommendation_count) ==
    LET below_080 == has_specific_items # has_reasoning /\ recommendation_count >= 2
        score == Min(100, 50 + (IF has_specific_items THEN 20 ELSE 0)
                             + (IF has_reasoning THEN 20 ELSE 0)
                             + (IF recommendation_count >= 2 THEN 10 ELSE 0))
    IN IF ~has_recommendations
       THEN IF asks_for_recommendation
            THEN [score |-> 20,
                  details |-> "Recommendations requested but not provided",
                  has_recommendations |-> FALSE]
            ELSE [score |-> 50,
                  details |-> "No recommendations needed for this query",
                  has_recommendations |-> FALSE]
       ELSE [score |-> score,
             details |-> IF score >= 80 /\ ~below_080
                         THEN "High quality recommendations with "
                                 \o ToString(recommendation_count) \o " suggestions"
                         ELSE "Basic recommendations provided",
             has_recommendations |-> TRUE,
             recommendation_count |-> recommendation_count]

\* The tests of the scorer, once its keyword searches are made.
\* 0.5 + 0.2 + 0.1 is 0.7999999999999999 in floating point: it is returned
\* as 0.8 but compares below 0.8 in the details test.
RecommendationOf(has_recommendations, asks_for_recommendation, has_specific_items, has_reasoning, recommendation_count) ==
    LET below_080 == has_specific_items # has_reasoning /\ recommendation_count >= 3
        score == Min(100, 50 + (IF has_specific_items THEN 20 ELSE 0)
                             + (IF has_reasoning THEN 20 ELSE 0)
                             + (IF recommendation_count >= 3 THEN 10 ELSE 0))
    IN IF ~has_recommendations
       THEN IF asks_for_recommendation
            THEN [score |-> 20,
                  details |-> "Recommendations requested but not provided",
                  has_recommendations |-> FALSE]
            ELSE [score |-> 50,
                  details |-> "No recommendations needed for this query",
                  has_recommendations |-> FALSE]
       ELSE [score |-> score,
             details |-> IF score >= 80 /\ ~below_080
                         THEN "High quality recommendations with "
                                 \o ToString(recommendation_count) \o " suggestions"
                         ELSE "Basic recommendations provided",
             has_recommendations |-> TRUE,
             recommendation_count |-> recommendation_count]

_evaluate_recommendation_quality(response, user_query) ==
    LET response_lower == Lower(response)
        recommendation_keywords ==
            <<"recommend", "suggest", "should", "advise", "consider", "umbrella",
              "jacket", "coat", "sweater", "raincoat", "outdoor", "indoor", "wear",
              "bring", "take", "prepare">>
    IN RecommendationOf(AnyIn(response_lower, recommendation_keywords),
                        AnyIn(Lower(user_query),
                              <<"should", "recommend", "suggest", "what should",
                                "what to wear", "umbrella", "jacket", "outdoor",
                                "indoor", "advice", "help">>),
                        AnyIn(response_lower, <<"umbrella", "jacket", "coat", "sweater",
                                                "raincoat", "boots", "hat", "gloves">>),
                        AnyIn(response_lower, <<"because", "due to", "since", "as",
                                                "given that", "considering">>),
                        CountIn(response_lower, recommendation_keywords))

----------------------------------------------------------------------------
(* Context-retention scorer *)

\* \w of the re module, for ASCII text.
IsWordChar(c) == IsLetter(c) \/ IsDigit(c) \/ c = "_"

\* \b holds between the characters i - 1 and i of t.
WordBoundary(t, i) ==
    (i - 1 >= 1 /\ IsWordChar(Char(t, i - 1))) # (i <= Len(t) /\ IsWordChar(Char(t, i)))

\* Index of the last character of the longest run of letters starting at i.
RECURSIVE LetterRunEnd(_, _)
LetterRunEnd(t, i) ==
    IF i + 1 <= Len(t) /\ IsLetter(Char(t, i + 1)) THEN LetterRunEnd(t, i + 1) ELSE i

known_cities == <<"dhaka", "helsinki", "tampere", "stockholm", "copenhagen", "oslo",
                  "reykjavik", "oulu", "new york", "london", "paris", "tokyo">>

\* Pattern 3, ([A-Z][a-z]+)\s+(?:today|tomorrow|weather), for a run of letters
\* i..e followed by spaces up to j.
CityBeforeAt(t, i, e, j) ==
    LET kw == IF StartsAt(t, j, "today") THEN "today"
              ELSE IF StartsAt(t, j, "tomorrow") THEN "tomorrow"
              ELSE IF StartsAt(t, j, "weather") THEN "weather"
              ELSE ""
    IN IF j > e + 1 /\ kw # "" THEN <<i, e, j + Len(kw) - 1>> ELSE <<>>

\* A match of city_patterns[p] that starts at index i of the lower-cased
\* message t: <<first, last, end>> with group 1 at first..last and the match
\* ending at end; <<>> when there is none.  re.IGNORECASE makes [A-Z] and
\* [a-z] both stand for any letter.
CityMatchAt(t, i, p) ==
    CASE p = 1 ->
            LET hits == {c \in 1..Len(known_cities) :
                            /\ StartsAt(t, i, known_cities[c])
                            /\ WordBoundary(t, i)
                            /\ WordBoundary(t, i + Len(known_cities[c]))}
                e == i + Len(known_cities[Least(hits)]) - 1
            IN IF hits = {} THEN <<>> ELSE <<i, e, e>>
      [] p = 2 ->
            LET j == SkipSpaces(t, i + 2) IN
            IF /\ StartsAt(t, i, "in")
               /\ j > i + 2
               /\ j + 1 <= Len(t)
               /\ IsLetter(Char(t, j))
               /\ IsLetter(Char(t, j + 1))
            THEN <<j, LetterRunEnd(t, j), LetterRunEnd(t, j)>>
            ELSE <<>>
      [] p = 3 ->
            IF i + 1 <= Len(t) /\ IsLetter(Char(t, i)) /\ IsLetter(Char(t, i + 1))
            THEN CityBeforeAt(t, i, LetterRunEnd(t, i),
                              SkipSpaces(t, LetterRunEnd(t, i) + 1))
            ELSE <<>>

\* re.findall(city_patterns[p], t, re.IGNORECASE) from index i on: the set of
\* the groups of the non-overlapping matches, scanning left to right.
RECURSIVE FindallCities(_, _, _)
CitiesAfter(t, i, p, m) ==
    IF m = <<>> THEN FindallCities(t, i + 1, p)
    ELSE {SubSeq(t, m[1], m[2])} \cup FindallCities(t, m[3] + 1, p)
FindallCities(t, i, p) ==
    IF i > Len(t) THEN {} ELSE CitiesAfter(t, i, p, CityMatchAt(t, i, p))

\* The user's text of a history turn: turn.get('user', turn.get('user_message', '')).
TurnUser(turn) == Get(turn, "user", Get(turn, "user_message", ""))

\* The assistant's text: turn.get('assistant', turn.get('response', '')).
TurnAssistant(turn) == Get(turn, "assistant", Get(turn, "response", ""))

days == <<"monday", "tuesday", "wednesday", "thursday", "friday", "saturday", "sunday",
          "today", "tomorrow", "friday", "saturday", "sunday">>

\* The entities one history turn adds to the three sets.
TurnCities(turn) ==
    LET user_msg == Lower(TurnUser(turn)) IN
    {Title(m) : m \in FindallCities(user_msg, 1, 1) \cup FindallCities(user_msg, 1, 2)
                        \cup FindallCities(user_msg, 1, 3)}

TurnPreferences(turn) ==
    LET user_msg == Lower(TurnUser(turn)) IN
    IF AnyIn(user_msg, <<"prefer", "like", "dislike", "hate", "love", "favorite">>)
    THEN (IF Contains(user_msg, "cold") \/ Contains(user_msg, "warm")
          THEN {"temperature_preference"} ELSE {})
         \cup (IF Contains(user_msg, "rain") \/ Contains(user_msg, "sunny")
               THEN {"weather_preference"} ELSE {})
         \cup (IF Contains(user_msg, "outdoor") \/ Contains(user_msg, "indoor")
               THEN {"activity_preference"} ELSE {})
    ELSE {}

TurnDates(turn) ==
    LET user_msg == Lower(TurnUser(turn)) IN
    {days[d] : d \in {i \in 1..Len(days) : Contains(user_msg, days[i])}}

\* Variant that applies the city penalty next to the city bonus.
ContextOf_both(city_mentioned, current_city_mentioned, pref_mentioned, date_mentioned) ==
    LET score == 50 + (IF city_mentioned THEN 20 ELSE 0)
                    + (IF current_city_mentioned THEN -10 ELSE 0)
                    + (IF pref_mentioned THEN 15 ELSE 0)
                    + (IF date_mentioned THEN 15 ELSE 0)
        retained_items == (IF city_mentioned THEN <<"city">> ELSE <<>>)
                          \o (IF pref_mentioned THEN <<"preferences">> ELSE <<>>)
                          \o (IF date_mentioned THEN <<"date/time">> ELSE <<>>)
    IN [score |-> Clamp(score),
        details |-> IF Len(retained_items) > 0
                    THEN "Retained " \o ToString(Len(retained_items))
                            \o " context item(s): " \o Join(retained_items)
                    ELSE "Limited context retention detected",
        retained_items |-> retained_items]

\* The score and the items, from what the response and the query mention.
ContextOf(city_mentioned, current_city_mentioned, pref_mentioned, date_mentioned) ==
    LET score == 50 + (IF city_mentioned THEN 20
                       ELSE IF current_city_mentioned THEN -10 ELSE 0)
                    + (IF pref_mentioned THEN 15 ELSE 0)
                    + (IF date_mentioned THEN 15 ELSE 0)
        retained_items == (IF city_mentioned THEN <<"city">> ELSE <<>>)
                          \o (IF pref_mentioned THEN <<"preferences">> ELSE <<>>)
                          \o (IF date_mentioned THEN <<"date/time">> ELSE <<>>)
    IN [score |-> Clamp(score),
        details |-> IF Len(retained_items) > 0
                    THEN "Retained " \o ToString(Len(retained_items))
                            \o " context item(s): " \o Join(retained_items)
                    ELSE "Limited context retention detected",
        retained_items |-> retained_items]

\* The checks of the response against the entities of the history.
ContextAgainst(response_lower, query_lower, mentioned_cities, mentioned_preferences, mentioned_dates) ==
    LET has_pref_keywords == \/ Contains(response_lower, "prefer")
                             \/ Contains(response_lower, "like")
                             \/ Contains(response_lower, "recommend")
        has_pref_context == \/ Contains(response_lower, "temperature")
                            \/ Contains(response_lower, "weather")
                            \/ Contains(response_lower, "outdoor")
                            \/ Contains(response_lower, "indoor")
    IN ContextOf(\E city \in mentioned_cities : Contains(response_lower, Lower(city)),
                 \E city \in mentioned_cities : Contains(query_lower, Lower(city)),
                 mentioned_preferences # {} /\ has_pref_keywords /\ has_pref_context,
                 \E day \in mentioned_dates : Contains(response_lower, day))

_evaluate_context_retention(user_query, response, conversation_history) ==
    IF ~Truthy(conversation_history)
    THEN [score |-> 50,
          details |-> "No conversation history available for context retention evaluation",
          retained_items |-> <<>>]
    ELSE
    LET history == conversation_history.v IN
    ContextAgainst(Lower(response), Lower(user_query),
                   UNION {TurnCities(history[i]) : i \in 1..Len(history)},
                   UNION {TurnPreferences(history[i]) : i \in 1..Len(history)},
                   UNION {TurnDates(history[i]) : i \in 1..Len(history)})

----------------------------------------------------------------------------
(* Adaptation-quality scorer *)

\* The known section keys, in the order the scorer reads them.
preference_sections == <<"temperature_preferences", "weather_preferences",
                         "activity_preferences", "weather_conditions">>

\* section.get(flag, False) is true, for a section the state may lack.
FlagSet(prefs, section, flag) ==
    section \in DOMAIN prefs /\ Truthy(Get(prefs[section].v, flag, PyBool(FALSE)))

\* The flags both schemas are normalised to (the keys of learned_prefs).
LearnedPrefs(prefs) ==
    {f \in {"dislikes_cold", "dislikes_heat", "dislikes_rain", "prefers_indoor",
            "outdoor_activities"} :
        CASE f = "dislikes_cold" -> \/ FlagSet(prefs, "temperature_preferences", f)
                                    \/ FlagSet(prefs, "weather_conditions", f)
          [] f = "dislikes_heat" -> FlagSet(prefs, "temperature_preferences", f)
          [] f = "dislikes_rain" -> \/ FlagSet(prefs, "weather_preferences", f)
                                    \/ FlagSet(prefs, "weather_conditions", f)
          [] f = "prefers_indoor" -> \/ FlagSet(prefs, "weather_preferences", f)
                                     \/ FlagSet(prefs, "activity_preferences", f)
          [] f = "outdoor_activities" -> FlagSet(prefs, "activity_preferences", f)}

\* Variant that skips the test of the learned count.
NothingLearned_never(prefs) == FALSE

\* user_preferences.get('learned_from_conversations', 0) == 0
NothingLearned(prefs) ==
    LET n == Get(prefs, "learned_from_conversations", PyNum(0)) IN
    \/ n.t = "number" /\ n.v = 0
    \/ n.t = "bool" /\ ~n.v

\* The adaptations the response shows, as records [bonus, name], in the
\* order the scorer tests them.
Adaptations(learned_prefs, response_lower) ==
    (IF /\ "dislikes_cold" \in learned_prefs
        /\ AnyIn(response_lower, <<"warm", "warmer", "jacket", "coat", "layers">>)
        /\ (Contains(response_lower, "cold") \/ Contains(response_lower, "freezing"))
     THEN <<[bonus |-> 15, name |-> "cold_weather_adaptation"]>> ELSE <<>>)
    \o (IF /\ "dislikes_rain" \in learned_prefs
           /\ (Contains(response_lower, "rain") \/ Contains(response_lower, "rainy"))
           /\ (Contains(response_lower, "umbrella") \/ Contains(response_lower, "indoor"))
        THEN <<[bonus |-> 15, name |-> "rain_adaptation"]>> ELSE <<>>)
    \o (IF "prefers_indoor" \in learned_prefs
        THEN (IF Contains(response_lower, "indoor") /\ ~Contains(response_lower, "outdoor")
              THEN <<[bonus |-> 15, name |-> "indoor_preference_adaptation"]>> ELSE <<>>)
        ELSE IF "outdoor_activities" \in learned_prefs /\ Contains(response_lower, "outdoor")
        THEN <<[bonus |-> 15, name |-> "outdoor_preference_adaptation"]>> ELSE <<>>)
    \o (IF /\ "dislikes_heat" \in learned_prefs
           /\ AnyIn(response_lower, <<"cool", "shade", "indoor", "air conditioning">>)
        THEN <<[bonus |-> 10, name |-> "heat_adaptation"]>> ELSE <<>>)
    \o (IF AnyIn(response_lower, <<"prefer", "preference", "remember", "based on",
                                   "considering">>)
        THEN <<[bonus |-> 10, name |-> "preference_awareness"]>> ELSE <<>>)

RECURSIVE SumBonuses(_)
SumBonuses(q) == IF q = <<>> THEN 0 ELSE q[1].bonus + SumBonuses(Tail(q))

\* The report of the scorer for the adaptations found.
AdaptationOf(adaptations) ==
    LET adaptations_detected == [i \in 1..Len(adaptations) |-> adaptations[i].name] IN
    [score |-> Clamp(50 + SumBonuses(adaptations)),
     details |-> IF Len(adaptations_detected) > 0
                 THEN "Detected " \o ToString(Len(adaptations_detected))
                         \o " adaptation(s)"
                 ELSE "Limited adaptation to user preferences",
     adaptations_detected |-> adaptations_detected]

_evaluate_adaptation_quality(response, user_query, user_preferences) ==
    IF ~Truthy(user_preferences)
    THEN [score |-> 50,
          details |-> "No user preferences available for adaptation evaluation",
          adaptations_detected |-> <<>>]
    ELSE
    LET prefs == user_preferences.v IN
    \* section.get(...) on a section that is not a dict
    IF \E i \in 1..Len(preference_sections) :
          /\ preference_sections[i] \in DOMAIN prefs
          /\ prefs[preference_sections[i]].t # "dict"
    THEN Raise("AttributeError")
    ELSE IF NothingLearned(prefs)
    THEN [score |-> 50,
          details |-> "No learned preferences available",
          adaptations_detected |-> <<>>]
    ELSE AdaptationOf(Adaptations(LearnedPrefs(prefs), Lower(response)))

----------------------------------------------------------------------------
(* Action-planning and error-recovery scorers *)

\* a or b or c on the results of str.find: the first operand that is not 0
\* (-1, "not found", is true in Python), else the last operand.
FirstNonZero(q) ==
    IF \E i \in 1..Len(q) : q[i] # 0
    THEN q[CHOOSE i \in 1..Len(q) : q[i] # 0 /\ \A j \in 1..(i - 1) : q[j] = 0]
    ELSE q[Len(q)]

\* The strengths and issues of the weather-query branch, as records
\* [kind, bonus, text] in the order the scorer appends them.
WeatherPlanning(response_lower, weather_data_used) ==
    LET has_weather_info ==
            AnyIn(response_lower, <<"°c", "°f", "degrees", "temperature", "humidity",
                                    "wind speed", "forecast">>)
        has_recommendations ==
            AnyIn(response_lower, <<"recommend", "suggest", "should", "umbrella",
                                    "jacket", "wear", "bring">>)
        weather_pos == FirstNonZero(<<Find(response_lower, "temperature"),
                                      Find(response_lower, "degrees"),
                                      Find(response_lower, "°")>>)
        rec_pos == FirstNonZero(<<Find(response_lower, "recommend"),
                                  Find(response_lower, "suggest"),
                                  Find(response_lower, "should")>>)
    IN (IF Truthy(weather_data_used)
        THEN <<[kind |-> "strength", bonus |-> 30,
                text |-> "Weather data retrieved appropriately"]>>
        ELSE IF AnyIn(response_lower, <<"unable to get", "could not retrieve",
                                        "weather data not available", "no weather data">>)
        THEN <<[kind |-> "strength", bonus |-> 15,
                text |-> "Acknowledged missing weather data"]>>
        ELSE <<[kind |-> "issue", bonus |-> 0,
                text |-> "Weather query but no weather data used"]>>)
       \o (IF has_weather_info /\ has_recommendations
           THEN (IF weather_pos # -1 /\ rec_pos # -1 /\ rec_pos > weather_pos
                 THEN <<[kind |-> "strength", bonus |-> 30,
                         text |-> "Logical sequence: weather info before recommendations"]>>
                 ELSE IF weather_pos # -1 /\ rec_pos # -1
                 THEN <<[kind |-> "strength", bonus |-> 20,
                         text |-> "Both weather info and recommendations present"]>>
                 ELSE <<>>)
           ELSE IF has_weather_info
           THEN <<[kind |-> "strength", bonus |-> 20,
                   text |-> "Weather information provided"]>>
           ELSE IF has_recommendations /\ ~Truthy(weather_data_used)
           THEN <<[kind |-> "issue", bonus |-> 0,
                   text |-> "Recommendations without weather data"]>>
           ELSE <<>>)

\* Variant that adds 0.3 for tool usage on a weather query.
ToolPlanning_generous(is_weather_query, tool_call_count) ==
    IF tool_call_count.t = "NoneType" THEN <<>>
    ELSE IF is_weather_query
    THEN (IF tool_call_count.v > 0
          THEN <<[kind |-> "strength", bonus |-> 30,
                  text |-> "Appropriate tool usage for weather query"]>>
          ELSE <<[kind |-> "issue", bonus |-> 0,
                  text |-> "No tool calls for weather query"]>>)
    ELSE IF tool_call_count.v = 0
    THEN <<[kind |-> "strength", bonus |-> 10, text |-> "No unnecessary tool calls"]>>
    ELSE <<>>

\* The strengths and issues of the tool-call branch.
ToolPlanning(is_weather_query, tool_call_count) ==
    IF tool_call_count.t = "NoneType" THEN <<>>
    ELSE IF is_weather_query
    THEN (IF tool_call_count.v > 0
          THEN <<[kind |-> "strength", bonus |-> 20,
                  text |-> "Appropriate tool usage for weather query"]>>
          ELSE <<[kind |-> "issue", bonus |-> 0,
                  text |-> "No tool calls for weather query"]>>)
    ELSE IF tool_call_count.v = 0
    THEN <<[kind |-> "strength", bonus |-> 10, text |-> "No unnecessary tool calls"]>>
    ELSE <<>>

\* The texts of the findings of one kind, in order.
RECURSIVE TextsOf(_, _)
TextsOf(q, kind) ==
    IF q = <<>> THEN <<>>
    ELSE (IF q[1].kind = kind THEN <<q[1].text>> ELSE <<>>) \o TextsOf(Tail(q), kind)

\* Variant without the floor of 0.8.
PlanningOf_no_floor(findings) ==
    LET planning_strengths == TextsOf(findings, "strength")
        planning_issues == TextsOf(findings, "issue")
        total == Min(100, SumBonuses(findings))
    IN [score |-> total,
        details |-> IF planning_strengths # <<>> /\ planning_issues = <<>>
                    THEN "Good planning: " \o Join(FirstTwo(planning_strengths))
                    ELSE IF planning_issues # <<>>
                    THEN "Issues: " \o Join(FirstTwo(planning_issues))
                    ELSE "Basic planning observed",
        strengths |-> planning_strengths,
        issues |-> planning_issues]

\* The report of the scorer for the strengths and issues found.
PlanningOf(findings) ==
    LET planning_strengths == TextsOf(findings, "strength")
        planning_issues == TextsOf(findings, "issue")
        total == Min(100, SumBonuses(findings))
    IN [score |-> IF planning_issues = <<>> /\ planning_strengths # <<>>
                  THEN Max(total, 80) ELSE total,
        details |-> IF planning_strengths # <<>> /\ planning_issues = <<>>
                    THEN "Good planning: " \o Join(FirstTwo(planning_strengths))
                    ELSE IF planning_issues # <<>>
                    THEN "Issues: " \o Join(FirstTwo(planning_issues))
                    ELSE "Basic planning observed",
        strengths |-> planning_strengths,
        issues |-> planning_issues]

_evaluate_action_planning(user_query, response, weather_data_used, tool_call_count) ==
    LET response_lower == Lower(response)
        is_weather_query ==
            AnyIn(Lower(user_query),
                  <<"weather", "temperature", "forecast", "rain", "sunny", "wind",
                    "humidity", "umbrella", "jacket", "temp", "degrees", "outdoor",
                    "activity", "plan">>)
    IN PlanningOf((IF is_weather_query
                   THEN WeatherPlanning(response_lower, weather_data_used)
                   ELSE <<>>)
                  \o ToolPlanning(is_weather_query, tool_call_count)
                  \o (IF AnyIn(response_lower, <<"first", "then", "next", "after",
                                                 "based on", "according to">>)
                      THEN <<[kind |-> "strength", bonus |-> 10,
                              text |-> "Response shows logical flow"]>>
                      ELSE <<>>))

\* any(phrase in response_lower for phrase in error_phrases)
HasErrorIndicators(response_lower) ==
    AnyIn(response_lower, <<"error", "failed", "unable", "can't", "couldn't",
                            "not available", "not found", "could not", "i'm sorry",
                            "apologize", "sorry">>)

\* The strengths and issues of the error-recovery scorer, in order.
RecoveryFindings(user_query, response, response_lower, weather_data_used) ==
    LET has_error_indicators == HasErrorIndicators(response_lower) IN
    (IF ~has_error_indicators THEN <<>>
     ELSE IF AnyIn(response_lower, <<"however", "but", "alternatively", "you could",
                                     "you might", "suggest", "recommend", "try",
                                     "consider", "instead">>)
     THEN <<[kind |-> "strength", bonus |-> 30,
             text |-> "Error handled with alternatives"]>>
     ELSE IF Len(response) > 50
     THEN <<[kind |-> "strength", bonus |-> 20, text |-> "Detailed error explanation"]>>
     ELSE <<[kind |-> "issue", bonus |-> -20,
             text |-> "Brief error message without alternatives"]>>)
    \o (IF weather_data_used.t # "NoneType" THEN <<>>
        ELSE IF AnyIn(response_lower, <<"unable to get", "could not retrieve",
                                        "weather data not available", "no weather data",
                                        "weather information unavailable",
                                        "could not fetch">>)
        THEN <<[kind |-> "strength", bonus |-> 20, text |-> "Acknowledged missing data"]>>
             \o (IF AnyIn(response_lower, <<"generally", "typically", "usually",
                                            "in general", "you might want", "consider",
                                            "suggest", "recommend", "could", "may want">>)
                 THEN <<[kind |-> "strength", bonus |-> 30,
                         text |-> "Provided alternatives despite missing data"]>>
                 ELSE <<>>)
        ELSE IF AnyIn(Lower(user_query), <<"weather", "temperature", "forecast", "rain",
                                           "sunny">>)
        THEN <<[kind |-> "issue", bonus |-> -20,
                text |-> "Missing weather data not acknowledged"]>>
        ELSE <<>>)
    \o (IF AnyIn(response_lower, <<"could you clarify", "could you specify", "which city",
                                   "which location", "please provide",
                                   "need more information", "to better assist">>)
        THEN <<[kind |-> "strength", bonus |-> 20,
                text |-> "Asks for clarification when needed"]>>
        ELSE <<>>)
    \o (IF /\ AnyIn(response_lower, <<"you could try", "alternatively", "another option",
                                      "you might", "consider", "suggest", "recommend",
                                      "option">>)
           /\ has_error_indicators
        THEN <<[kind |-> "strength", bonus |-> 20, text |-> "Provides fallback options"]>>
        ELSE <<>>)

\* The report of the scorer for the strengths and issues found; quiet says
\* that the response reports no error and weather data was used.
RecoveryOf(findings, quiet) ==
    LET recovery_strengths == TextsOf(findings, "strength")
        recovery_issues == TextsOf(findings, "issue")
        \* the branch that sets the score to 1.0 after the clamp
        no_errors == recovery_strengths = <<>> /\ recovery_issues = <<>> /\ quiet
    IN [score |-> IF no_errors THEN 100 ELSE Clamp(50 + SumBonuses(findings)),
        details |-> IF recovery_strengths # <<>> /\ recovery_issues = <<>>
                    THEN "Good recovery: " \o Join(FirstTwo(recovery_strengths))
                    ELSE IF recovery_issues # <<>>
                    THEN "Recovery issues: " \o Join(FirstTwo(recovery_issues))
                    ELSE IF no_errors THEN "No errors encountered"
                    ELSE "Basic error handling",
        strengths |-> recovery_strengths,
        issues |-> recovery_issues]

_evaluate_error_recovery(user_query, response, weather_data_used) ==
    LET response_lower == Lower(response) IN
    RecoveryOf(RecoveryFindings(user_query, response, response_lower, weather_data_used),
               ~HasErrorIndicators(response_lower) /\ Truthy(weather_data_used))

----------------------------------------------------------------------------
(* Developer-experience scorers *)

\* The table an evaluator builds at construction.
_load_framework_characteristics ==
    [GADK |-> [files_count |-> 5,
               setup_complexity |-> "medium",
               tool_integration_files |-> 2,
               memory_integration |-> "built_in",
               error_handling |-> "framework_managed",
               logging |-> "framework_provided",
               code_complexity |-> "medium",
               documentation |-> "comprehensive"],
     MS |-> [files_count |-> 4,
             setup_complexity |-> "low",
             tool_integration_files |-> 1,
             memory_integration |-> "manual",
             error_handling |-> "manual",
             logging |-> "basic",
             code_complexity |-> "low",
             documentation |-> "moderate"]]

\* The five-step label scale the three scorers share, from the best label
\* (score >= 0.8) to the worst (score < 0.2).
Level(score, labels) ==
    IF score >= 80 THEN labels[1]
    ELSE IF score >= 60 THEN labels[2]
    ELSE IF score >= 40 THEN labels[3]
    ELSE IF score >= 20 THEN labels[4]
    ELSE labels[5]

\* s.replace('_', ' ')
RECURSIVE ReplaceUnderscores(_)
ReplaceUnderscores(s) ==
    IF s = "" THEN ""
    ELSE (IF Char(s, 1) = "_" THEN " " ELSE Char(s, 1))
            \o ReplaceUnderscores(SubSeq(s, 2, Len(s)))

\* Variant that subscripts the table instead of using get().
_evaluate_implementation_effort_subscript(self, framework_name) ==
    IF framework_name \notin DOMAIN self
    THEN Raise("KeyError")
    ELSE
    LET chars == self[framework_name]
        score == Clamp(50 + (IF chars.files_count <= 3 THEN -20
                             ELSE IF chars.files_count >= 6 THEN 20 ELSE 0)
                          + (IF chars.setup_complexity = "low" THEN -15
                             ELSE IF chars.setup_complexity = "high" THEN 15 ELSE 0)
                          + (IF chars.code_complexity = "low" THEN -15
                             ELSE IF chars.code_complexity = "high" THEN 15 ELSE 0))
        inverted_score == 100 - score
        effort_level == Level(inverted_score, <<"very easy", "easy", "moderate",
                                                "difficult", "very difficult">>)
    IN [score |-> inverted_score,
        details |-> ToString(chars.files_count) \o " files, " \o chars.setup_complexity
                        \o " setup (" \o effort_level \o ")",
        effort_level |-> effort_level,
        files_count |-> chars.files_count,
        setup_complexity |-> chars.setup_complexity]

_evaluate_implementation_effort(self, framework_name) ==
    IF framework_name \notin DOMAIN self
    THEN [score |-> 50, details |-> "Framework not recognized", effort_level |-> "unknown"]
    ELSE
    LET chars == self[framework_name]
        score == Clamp(50 + (IF chars.files_count <= 3 THEN -20
                             ELSE IF chars.files_count >= 6 THEN 20 ELSE 0)
                          + (IF chars.setup_complexity = "low" THEN -15
                             ELSE IF chars.setup_complexity = "high" THEN 15 ELSE 0)
                          + (IF chars.code_complexity = "low" THEN -15
                             ELSE IF chars.code_complexity = "high" THEN 15 ELSE 0))
        inverted_score == 100 - score
        effort_level == Level(inverted_score, <<"very easy", "easy", "moderate",
                                                "difficult", "very difficult">>)
    IN [score |-> inverted_score,
        details |-> ToString(chars.files_count) \o " files, " \o chars.setup_complexity
                        \o " setup (" \o effort_level \o ")",
        effort_level |-> effort_level,
        files_count |-> chars.files_count,
        setup_complexity |-> chars.setup_complexity]

_evaluate_integration_simplicity(self, framework_name) ==
    IF framework_name \notin DOMAIN self
    THEN [score |-> 50, details |-> "Framework not recognized",
          simplicity_level |-> "unknown"]
    ELSE
    LET chars == self[framework_name]
        score == Clamp(50 + (IF chars.tool_integration_files = 1 THEN 30
                             ELSE IF chars.tool_integration_files = 2 THEN 10 ELSE -20)
                          + (IF chars.memory_integration = "built_in" THEN 20
                             ELSE IF chars.memory_integration = "manual" THEN -10 ELSE 0))
        simplicity_level == Level(score, <<"very simple", "simple", "moderate",
                                           "complex", "very complex">>)
        memory_desc == IF chars.memory_integration = "built_in" THEN "built-in"
                       ELSE "manual"
    IN [score |-> score,
        details |-> ToString(chars.tool_integration_files) \o " file(s) to modify, "
                        \o memory_desc \o " memory (" \o simplicity_level \o ")",
        simplicity_level |-> simplicity_level,
        tool_files |-> chars.tool_integration_files,
        memory_approach |-> chars.memory_integration]

\* Variant that judges an error message by its wording alone.
ErrorMessageBonus_by_word(response) ==
    IF Contains(Lower(response), "error:") \/ Contains(response, "Error:")
    THEN (IF AnyIn(Lower(response), <<"unable", "could not", "failed", "missing">>)
          THEN 10 ELSE -10)
    ELSE 0

\* The adjustment for a response that carries an error marker: a descriptive
\* message (more than 50 characters with an explanatory word) adds 0.1, a
\* brief one takes 0.1 away.
ErrorMessageBonus(response) ==
    IF Contains(Lower(response), "error:") \/ Contains(response, "Error:")
    THEN (IF Len(response) > 50
               /\ AnyIn(Lower(response), <<"unable", "could not", "failed", "missing">>)
          THEN 10 ELSE -10)
    ELSE 0

\* Variant that scores a framework it does not know as the MS framework.
_evaluate_debuggability_as_MS(self, framework_name, response) ==
    LET chars == IF framework_name \in DOMAIN self THEN self[framework_name]
                 ELSE self["MS"]
        response_lower == Lower(response)
        score == Clamp(50 + (IF chars.error_handling = "framework_managed" THEN 20
                             ELSE IF chars.error_handling = "manual" THEN -10 ELSE 0)
                          + (IF chars.logging = "framework_provided" THEN 20
                             ELSE IF chars.logging = "basic" THEN -10 ELSE 0)
                          + ErrorMessageBonus(response)
                          + (IF chars.documentation = "comprehensive" THEN 10
                             ELSE IF chars.documentation = "moderate" THEN 5 ELSE 0))
        debuggability_level == Level(score, <<"excellent", "good", "moderate", "poor",
                                              "very poor">>)
    IN [score |-> score,
        details |-> ReplaceUnderscores(chars.logging) \o " logging, "
                        \o ReplaceUnderscores(chars.error_handling) \o " errors ("
                        \o debuggability_level \o ")",
        debuggability_level |-> debuggability_level,
        logging_quality |-> chars.logging,
        error_handling |-> chars.error_handling]

_evaluate_debuggability(self, framework_name, response) ==
    IF framework_name \notin DOMAIN self
    THEN [score |-> 50, details |-> "Framework not recognized",
          debuggability_level |-> "unknown"]
    ELSE
    LET chars == self[framework_name]
        response_lower == Lower(response)
        score == Clamp(50 + (IF chars.error_handling = "framework_managed" THEN 20
                             ELSE IF chars.error_handling = "manual" THEN -10 ELSE 0)
                          + (IF chars.logging = "framework_provided" THEN 20
                             ELSE IF chars.logging = "basic" THEN -10 ELSE 0)
                          + ErrorMessageBonus(response)
                          + (IF chars.documentation = "comprehensive" THEN 10
                             ELSE IF chars.documentation = "moderate" THEN 5 ELSE 0))
        debuggability_level == Level(score, <<"excellent", "good", "moderate", "poor",
                                              "very poor">>)
    IN [score |-> score,
        details |-> ReplaceUnderscores(chars.logging) \o " logging, "
                        \o ReplaceUnderscores(chars.error_handling) \o " errors ("
                        \o debuggability_level \o ")",
        debuggability_level |-> debuggability_level,
        logging_quality |-> chars.logging,
        error_handling |-> chars.error_handling]

----------------------------------------------------------------------------
(* Ambiguity-handling scorer *)

\* The four heuristics of ambiguous_indicators.
AmbiguousIndicators(user_query) ==
    LET query_lower == Lower(user_query) IN
    [missing_location |->
        ~AnyIn(query_lower, <<"in ", "at ", "for ", "weather", "city", "location",
                              "place">>),
     missing_time |->
        /\ AnyIn(query_lower, <<"when", "what time", "when is">>)
        /\ ~AnyIn(query_lower, <<"today", "tomorrow", "friday", "monday", "next">>),
     vague_request |->
        /\ Len(Split(user_query)) < 4
        /\ ~AnyIn(query_lower, <<"weather", "temperature", "forecast">>),
     unclear_intent |->
        ~AnyIn(query_lower, <<"weather", "temp", "forecast", "rain", "sunny", "cold",
                              "hot", "umbrella", "jacket", "activity", "plan">>)]

\* The strengths and issues of the ambiguity scorer, in order.
AmbiguityFindings(response, response_lower, ambiguous_indicators, is_ambiguous) ==
    LET clarification_phrases ==
            <<"could you clarify", "could you specify", "which city", "which location",
              "please provide", "need more information", "to better assist",
              "could you tell me", "what city", "what location", "where", "when",
              "which", "please specify">>
        assumption_indicators ==
            <<"assuming", "i'll assume", "if you mean", "probably", "likely",
              "typically", "generally", "usually", "most likely">>
        relevant == AnyIn(response_lower, <<"weather", "temperature", "forecast",
                                            "recommend">>)
        location_phrases ==
            <<"which city", "what city", "where", "location", "city name",
              "please specify the city", "could you tell me the city">>
        guidance_phrases ==
            <<"you can ask", "you might want to", "for example", "such as",
              "you could specify", "to get better results", "to help you better">>
    IN (IF is_ambiguous
        THEN (IF AnyIn(response_lower, clarification_phrases)
              THEN <<[kind |-> "strength", bonus |-> 40,
                      text |-> "Asks for clarification when input is vague"]>>
              ELSE IF AnyIn(response_lower, assumption_indicators)
              THEN <<[kind |-> "strength", bonus |-> 30,
                      text |-> "Makes reasonable assumptions when information is missing"]>>
              ELSE IF Len(response) > 100 /\ relevant
              THEN <<[kind |-> "strength", bonus |-> 20,
                      text |-> "Provides helpful response despite ambiguity"]>>
              ELSE <<[kind |-> "issue", bonus |-> -20,
                      text |-> "Does not handle ambiguous input well"]>>)
        ELSE IF Len(response) > 50 /\ relevant
        THEN <<[kind |-> "strength", bonus |-> 20,
                text |-> "Handles clear queries appropriately"]>>
        ELSE <<>>)
       \o (IF ~ambiguous_indicators.missing_location THEN <<>>
           ELSE IF AnyIn(response_lower, location_phrases)
           THEN <<[kind |-> "strength", bonus |-> 20,
                   text |-> "Asks for missing location information"]>>
           ELSE IF ~is_ambiguous
           THEN <<[kind |-> "issue", bonus |-> -10,
                   text |-> "Does not request missing location"]>>
           ELSE <<>>)
       \o (IF AnyIn(response_lower, guidance_phrases) /\ is_ambiguous
           THEN <<[kind |-> "strength", bonus |-> 20,
                   text |-> "Provides helpful guidance for unclear input"]>>
           ELSE <<>>)

\* The report of the scorer for the strengths and issues found.
AmbiguityOf(is_ambiguous, findings) ==
    LET handling_strengths == TextsOf(findings, "strength")
        handling_issues == TextsOf(findings, "issue")
        score == Clamp(50 + SumBonuses(findings))
        \* the branch that raises the score to 0.8 after the clamp
        clear == handling_strengths = <<>> /\ handling_issues = <<>> /\ ~is_ambiguous
    IN [score |-> IF clear THEN Max(score, 80) ELSE score,
        details |-> IF handling_strengths # <<>> /\ handling_issues = <<>>
                    THEN "Good handling: " \o Join(FirstTwo(handling_strengths))
                    ELSE IF handling_issues # <<>>
                    THEN "Issues: " \o Join(FirstTwo(handling_issues))
                    ELSE IF ~is_ambiguous THEN "Query was clear, handled appropriately"
                    ELSE "Basic ambiguity handling",
        strengths |-> handling_strengths,
        issues |-> handling_issues,
        is_ambiguous |-> is_ambiguous]

\* The scorer once the indicators of the query are computed.
AmbiguityWith(response, ambiguous_indicators) ==
    LET is_ambiguous == \/ ambiguous_indicators.missing_location
                        \/ ambiguous_indicators.missing_time
                        \/ ambiguous_indicators.vague_request
                        \/ ambiguous_indicators.unclear_intent
    IN AmbiguityOf(is_ambiguous,
                   AmbiguityFindings(response, Lower(response), ambiguous_indicators,
                                     is_ambiguous))

_evaluate_ambiguity_handling(user_query, response, conversation_history) ==
    AmbiguityWith(response, AmbiguousIndicators(user_query))

----------------------------------------------------------------------------
(* Repeatability scorer *)

\* set(word.lower() for word in text.split() if len(word) > 3)
Keywords(text) ==
    LET words == Split(text) IN
    {Lower(words[i]) : i \in {j \in 1..Len(words) : Len(words[j]) > 3}}

\* The lower-cased responses of the history turns whose query shares at
\* least 2 keywords with the current query.
RECURSIVE SimilarResponses(_, _)
SimilarResponses(history, current_keywords) ==
    IF history = <<>> THEN <<>>
    ELSE LET prev_query == TurnUser(history[1]) IN
         (IF prev_query # ""
               /\ Cardinality(current_keywords \cap Keywords(prev_query)) >= 2
          THEN <<Lower(TurnAssistant(history[1]))>>
          ELSE <<>>)
         \o SimilarResponses(Tail(history), current_keywords)

\* Some earlier response holds one of the words.
Seen(prev_responses, words) ==
    \E i \in 1..Len(prev_responses) : AnyIn(prev_responses[i], words)

\* The elements the response shares with the earlier responses, in order.
ConsistencyMatches(prev_responses, response_lower) ==
    LET temperature == <<"temperature", "degrees">>
        recommendations == <<"recommend", "suggest", "should">>
        specific_items == <<"umbrella", "jacket", "wear">>
    IN (IF Seen(prev_responses, temperature) /\ AnyIn(response_lower, temperature)
        THEN <<[kind |-> "strength", bonus |-> 30,
                text |-> "Consistent temperature information"]>> ELSE <<>>)
       \o (IF /\ Seen(prev_responses, recommendations)
              /\ AnyIn(response_lower, recommendations)
           THEN <<[kind |-> "strength", bonus |-> 30,
                   text |-> "Consistent recommendation style"]>> ELSE <<>>)
       \o (IF /\ Seen(prev_responses, specific_items)
              /\ AnyIn(response_lower, specific_items)
           THEN <<[kind |-> "strength", bonus |-> 20,
                   text |-> "Consistent item suggestions"]>> ELSE <<>>)

\* The strengths and issues of the comparison with the similar earlier
\* responses, in order, and whether the comparison replaces the initial score.
ConsistencyOf(prev_responses, response_lower) ==
    LET matches == ConsistencyMatches(prev_responses, response_lower) IN
    IF prev_responses = <<>> THEN [replaces |-> FALSE, findings |-> <<>>]
    ELSE IF matches # <<>> THEN [replaces |-> TRUE, findings |-> matches]
    ELSE [replaces |-> FALSE,
          findings |-> <<[kind |-> "issue", bonus |-> -20,
                          text |-> "Inconsistent with previous similar queries"]>>]

HistoryConsistency(user_query, response_lower, history) ==
    ConsistencyOf(SimilarResponses(history, Keywords(user_query)), response_lower)

\* The report when the comparison adds to the initial score.
RepeatabilityOf_adding(has_history, compared, penalties) ==
    LET findings == compared.findings \o penalties
        consistency_strengths == TextsOf(findings, "strength")
        consistency_issues == TextsOf(findings, "issue")
        score == 70 + SumBonuses(findings)
    IN [score |-> Clamp(score),
        details |-> IF consistency_strengths # <<>> /\ consistency_issues = <<>>
                    THEN "Good consistency: " \o Join(FirstTwo(consistency_strengths))
                    ELSE IF consistency_issues # <<>>
                    THEN "Consistency issues: " \o Join(FirstTwo(consistency_issues))
                    ELSE IF has_history THEN "Consistent with conversation history"
                    ELSE "No history to compare, appears stable",
        strengths |-> consistency_strengths,
        issues |-> consistency_issues]

\* The report of the scorer for the comparison made and the issues found in
\* the response alone.
RepeatabilityOf(has_history, compared, penalties) ==
    LET findings == compared.findings \o penalties
        consistency_strengths == TextsOf(findings, "strength")
        consistency_issues == TextsOf(findings, "issue")
        score == (IF compared.replaces THEN 50 ELSE 70) + SumBonuses(findings)
    IN [score |-> Clamp(score),
        details |-> IF consistency_strengths # <<>> /\ consistency_issues = <<>>
                    THEN "Good consistency: " \o Join(FirstTwo(consistency_strengths))
                    ELSE IF consistency_issues # <<>>
                    THEN "Consistency issues: " \o Join(FirstTwo(consistency_issues))
                    ELSE IF has_history THEN "Consistent with conversation history"
                    ELSE "No history to compare, appears stable",
        strengths |-> consistency_strengths,
        issues |-> consistency_issues]

_evaluate_repeatability(user_query, response, conversation_history) ==
    LET response_lower == Lower(response) IN
    RepeatabilityOf(
        Truthy(conversation_history),
        IF Truthy(conversation_history)
        THEN HistoryConsistency(user_query, response_lower, conversation_history.v)
        ELSE [replaces |-> FALSE,
              findings |->
                  IF AnyIn(response_lower, <<"weather", "temperature", "forecast",
                                             "recommend">>)
                  THEN <<[kind |-> "strength", bonus |-> 10,
                          text |-> "Structured response format"]>>
                  ELSE <<>>],
        (IF AnyIn(response_lower, <<"random", "maybe", "perhaps", "might be",
                                    "could be different">>)
         THEN <<[kind |-> "issue", bonus |-> -10,
                 text |-> "Contains non-deterministic language"]>> ELSE <<>>)
        \o (IF Len(response) < 30
            THEN <<[kind |-> "issue", bonus |-> -10,
                    text |-> "Very short response (potential instability)"]>>
            ELSE IF Len(response) > 1000
            THEN <<[kind |-> "issue", bonus |-> -5,
                    text |-> "Very long response (potential inconsistency)"]>>
            ELSE <<>>))

----------------------------------------------------------------------------
(* evaluate_response *)

\* The keys of the metrics dictionary, in the order its literal evaluates them.
\* Variant of the dictionary literal without its last entry.
MetricOrder_short ==
    <<"accuracy", "task_completion", "recommendation_quality", "context_retention",
      "adaptation_quality", "response_time", "tool_call_count", "action_planning",
      "error_recovery", "implementation_effort", "integration_simplicity",
      "debuggability", "ambiguity_handling">>

MetricOrder ==
    <<"accuracy", "task_completion", "recommendation_quality", "context_retention",
      "adaptation_quality", "response_time", "tool_call_count", "action_planning",
      "error_recovery", "implementation_effort", "integration_simplicity",
      "debuggability", "ambiguity_handling", "repeatability">>

\* The value evaluate_response computes for one key: self is the
\* evaluator's _framework_characteristics, a the arguments of the call.
Scorer(key, self, a) ==
    CASE key = "accuracy" ->
            _evaluate_accuracy(a.response, a.weather_data_used, a.user_query)
      [] key = "task_completion" ->
            _evaluate_task_completion(a.user_query, a.response)
      [] key = "recommendation_quality" ->
            _evaluate_recommendation_quality(a.response, a.user_query)
      [] key = "context_retention" ->
            _evaluate_context_retention(a.user_query, a.response, a.conversation_history)
      [] key = "adaptation_quality" ->
            _evaluate_adaptation_quality(a.response, a.user_query, a.user_preferences)
      [] key = "response_time" ->
            _evaluate_response_time(a.response_time)
      [] key = "tool_call_count" ->
            _evaluate_tool_call_count(a.tool_call_count)
      [] key = "action_planning" ->
            _evaluate_action_planning(a.user_query, a.response, a.weather_data_used,
                                      a.tool_call_count)
      [] key = "error_recovery" ->
            _evaluate_error_recovery(a.user_query, a.response, a.weather_data_used)
      [] key = "implementation_effort" ->
            _evaluate_implementation_effort(self, a.framework_name)
      [] key = "integration_simplicity" ->
            _evaluate_integration_simplicity(self, a.framework_name)
      [] key = "debuggability" ->
            _evaluate_debuggability(self, a.framework_name, a.response)
      [] key = "ambiguity_handling" ->
            _evaluate_ambiguity_handling(a.user_query, a.response, a.conversation_history)
      [] key = "repeatability" ->
            _evaluate_repeatability(a.user_query, a.response, a.conversation_history)

\* A caller that is not inside evaluate_response and has made no call yet.
Idle == [status |-> "idle", self |-> 0, args |-> <<>>, pc |-> 0, metrics |-> <<>>,
         exc |-> ""]

\* ChatbotEvaluator(): the state of every evaluator after construction.
__init__ == _load_framework_characteristics

\* A caller enters evaluate_response of evaluator e with the arguments a.
Call(c, e, a) ==
    /\ calls[c].status # "running"
    /\ calls' = [calls EXCEPT ![c] = [status |-> "running", self |-> e, args |-> a,
                                      pc |-> 1, metrics |-> <<>>, exc |-> ""]]
    /\ UNCHANGED <<evaluators, app_vars>>

\* The call after the scorer of the entry key returned r: an exception of
\* the scorer ends the call, a result is stored under the key.
Advance(call, key, r) ==
    IF Raised(r)
    THEN [call EXCEPT !.status = "raised", !.exc = r.exc]
    ELSE [call EXCEPT !.pc = @ + 1, !.metrics = (key :> r) @@ @]

\* Variant whose effort scorer records the framework it scored by bumping
\* files_count in the evaluator's table.
Step_writes_table(c) ==
    /\ calls[c].status = "running"
    /\ calls[c].pc <= Len(MetricOrder)
    /\ calls' = [calls EXCEPT ![c] =
                    Advance(@, MetricOrder[@.pc],
                            Scorer(MetricOrder[@.pc], evaluators[@.self], @.args))]
    /\ evaluators' =
           IF /\ MetricOrder[calls[c].pc] = "implementation_effort"
              /\ calls[c].args.framework_name \in DOMAIN evaluators[calls[c].self]
           THEN [evaluators EXCEPT
                    ![calls[c].self][calls[c].args.framework_name].files_count = 6]
           ELSE evaluators
    /\ UNCHANGED app_vars

\* The call of caller c evaluates the next entry of the metrics dictionary.
Step(c) ==
    /\ calls[c].status = "running"
    /\ calls[c].pc <= Len(MetricOrder)
    /\ calls' = [calls EXCEPT ![c] =
                    Advance(@, MetricOrder[@.pc],
                            Scorer(MetricOrder[@.pc], evaluators[@.self], @.args))]
    /\ UNCHANGED <<evaluators, app_vars>>

\* Variant that replaces the caller's history by an empty list on return.
Return_clears_history(c) ==
    /\ calls[c].status = "running"
    /\ calls[c].pc = Len(MetricOrder) + 1
    /\ calls' = [calls EXCEPT ![c].status = "returned",
                              ![c].args.conversation_history = PyList(<<>>)]
    /\ UNCHANGED <<evaluators, app_vars>>

\* return metrics
Return(c) ==
    /\ calls[c].status = "running"
    /\ calls[c].pc = Len(MetricOrder) + 1
    /\ calls' = [calls EXCEPT ![c].status = "returned"]
    /\ UNCHANGED <<evaluators, app_vars>>

----------------------------------------------------------------------------
(* The arguments the callers pass to evaluate_response *)

Queries ==
    <<"What's the weather in Helsinki today?",
      "Should I bring an umbrella tomorrow?",
      "hi",
      "What is the forecast for Paris next week?">>

Responses ==
    <<"It's 15°C and sunny today",
      "Sorry, I couldn't get that.",
      "",
      "The temperature in Helsinki is 11 degrees with light rain. You should bring an umbrella because it is cold, so wear a warm jacket.",
      "Sorry, no weather data. However, I suggest you typically consider an umbrella; which city are you in?",
      "Error: unable to fetch the forecast because the weather service failed; please provide a city name, for example Oslo.",
      "Based on your preference: it is cold and rainy, so stay indoor, keep warm with a coat and an umbrella, and stay cool in the shade.",
      "Tomorrow will be 12.5 °C in Paris; I recommend a coat.">>

Frameworks == <<"GADK", "MS", "LangChain">>

\* A current-conditions snapshot, as comparison_app.py builds it.
CurrentWeather(temperature, main_condition) ==
    PyDict([current |-> PyDict([temperature |-> temperature,
                                main_condition |-> main_condition])])

\* Well-formed snapshots: absent, empty, current conditions, current
\* conditions with a forecast, forecast only.
Weathers ==
    <<PyNone,
      PyDict(<<>>),
      CurrentWeather(PyNum(100), PyStr("rain")),
      PyDict([current |-> PyDict([temperature |-> PyNum(120),
                                  main_condition |-> PyStr("clear")]),
              daily_summaries |-> PyList(<<>>)]),
      PyDict([detailed_forecast |-> PyList(<<>>)])>>

\* Snapshots of the wrong shape: a 'current' entry that is not a record, a
\* temperature that is not a number, a condition that is not a string.
MalformedWeathers ==
    <<PyDict([current |-> PyStr("sunny")]),
      CurrentWeather(PyStr("10"), PyStr("rain")),
      CurrentWeather(PyNum(100), PyNum(5)),
      CurrentWeather(PyNum(100), PyNone)>>

Histories ==
    <<PyNone,
      PyList(<<>>),
      PyList(<<[user |-> "What is the weather in Helsinki tomorrow? I prefer warm indoor places",
                assistant |-> "The temperature is 10 degrees, you should wear a jacket"]>>),
      PyList(<<[user_message |-> "Is it raining in Paris on friday?",
                response |-> "I suggest an umbrella"],
               [user_message |-> "thanks"]>>)>>

\* Preference states: absent, empty, the GADK schema with nothing learned
\* and with every flag learned, the MS schema with and without a count.
Preferences ==
    <<PyNone,
      PyDict(<<>>),
      PyDict([learned_from_conversations |-> PyNum(0),
              temperature_preferences |-> PyDict([dislikes_cold |-> PyBool(TRUE)])]),
      PyDict([learned_from_conversations |-> PyNum(3),
              temperature_preferences |-> PyDict([dislikes_cold |-> PyBool(TRUE),
                                                  dislikes_heat |-> PyBool(TRUE)]),
              weather_preferences |-> PyDict([dislikes_rain |-> PyBool(TRUE),
                                              prefers_indoor |-> PyBool(TRUE)]),
              activity_preferences |-> PyDict([outdoor_activities |-> PyBool(TRUE)])]),
      PyDict([learned_from_conversations |-> PyNum(2),
              weather_conditions |-> PyDict([dislikes_cold |-> PyBool(TRUE),
                                             dislikes_rain |-> PyBool(FALSE)]),
              activity_preferences |-> PyDict([prefers_indoor |-> PyBool(FALSE)])]),
      PyDict([weather_conditions |-> PyDict([dislikes_rain |-> PyBool(TRUE)]),
              activity_preferences |-> PyDict([prefers_indoor |-> PyBool(TRUE)])])>>

\* Preference states of an unrecognised schema: a known section key that
\* holds something other than a mapping.
MalformedPreferences ==
    <<PyDict([learned_from_conversations |-> PyNum(1),
              temperature_preferences |-> PyList(<<>>)]),
      PyDict([learned_from_conversations |-> PyNum(0),
              weather_conditions |-> PyStr("dislikes_rain")])>>

\* Latencies (tenths of a second) and tool-call counts, absent or given.
Latencies == <<PyNone, PyNum(15), PyNum(35), PyNum(75), PyNum(400)>>
ToolCallCounts == <<PyNone, PyNum(0), PyNum(2), PyNum(9)>>

\* A pool gives, for every argument of evaluate_response, the values the
\* callers choose from.  EvalPools covers: every text against every
\* snapshot; every call without optional arguments; histories against
\* preference states; the telemetry.
EvalPools ==
    <<[user_query |-> Queries, response |-> Responses, framework_name |-> <<"GADK">>,
       weather_data_used |-> Weathers \o MalformedWeathers,
       conversation_history |-> <<PyNone>>, user_preferences |-> <<PyNone>>,
       response_time |-> <<PyNone>>, tool_call_count |-> <<PyNone, PyNum(2)>>],
      [user_query |-> Queries, response |-> Responses, framework_name |-> Frameworks,
       weather_data_used |-> <<PyNone>>,
       conversation_history |-> <<PyNone>>, user_preferences |-> <<PyNone>>,
       response_time |-> <<PyNone>>, tool_call_count |-> <<PyNone>>],
      [user_query |-> SubSeq(Queries, 1, 2), response |-> Responses,
       framework_name |-> <<"MS">>,
       weather_data_used |-> <<CurrentWeather(PyNum(100), PyStr("rain"))>>,
       conversation_history |-> Histories,
       user_preferences |-> Preferences \o MalformedPreferences,
       response_time |-> <<PyNone>>, tool_call_count |-> <<PyNum(0)>>],
      [user_query |-> SubSeq(Queries, 1, 1), response |-> SubSeq(Responses, 1, 2),
       framework_name |-> Frameworks,
       weather_data_used |-> <<PyNone>>,
       conversation_history |-> <<PyNone>>, user_preferences |-> <<PyNone>>,
       response_time |-> Latencies, tool_call_count |-> ToolCallCounts]>>

\* A caller enters evaluate_response with arguments drawn from the pools.
CallFrom(c, e, pools) ==
    \E k \in 1..Len(pools) :
        LET P == pools[k] IN
        \E q \in 1..Len(P.user_query), r \in 1..Len(P.response),
           f \in 1..Len(P.framework_name), w \in 1..Len(P.weather_data_used),
           h \in 1..Len(P.conversation_history), p \in 1..Len(P.user_preferences),
           t \in 1..Len(P.response_time), n \in 1..Len(P.tool_call_count) :
            Call(c, e, [user_query |-> P.user_query[q],
                        response |-> P.response[r],
                        framework_name |-> P.framework_name[f],
                        weather_data_used |-> P.weather_data_used[w],
                        conversation_history |-> P.conversation_history[h],
                        user_preferences |-> P.user_preferences[p],
                        response_time |-> P.response_time[t],
                        tool_call_count |-> P.tool_call_count[n]])

----------------------------------------------------------------------------
(* The preference stores: GADK/chatbot/preferences.py and
   MS/preferences_manager.py *)

\* datetime.now().isoformat() at the time t.
isoformat(t) == PyStr(ToString(t))

\* A user without a preferences file.
NoFile == PyNone

\* The number of entries a stored conversation history keeps.
HistoryLimit == 50

get_default_preferences ==
    PyDict([temperature_preferences |->
                PyDict([dislikes_cold |-> PyBool(FALSE),
                        dislikes_heat |-> PyBool(FALSE),
                        preferred_temp_range |-> PyNone,
                        comfortable_min |-> PyNum(150),
                        comfortable_max |-> PyNum(250)]),
            weather_preferences |->
                PyDict([dislikes_rain |-> PyBool(FALSE),
                        dislikes_wind |-> PyBool(FALSE),
                        prefers_sunny |-> PyBool(FALSE),
                        prefers_indoor |-> PyBool(FALSE)]),
            activity_preferences |->
                PyDict([outdoor_activities |-> PyBool(TRUE),
                        sensitive_to_weather |-> PyBool(FALSE)]),
            conversation_history |-> PyList(<<>>),
            learned_from_conversations |-> PyNum(0)])

_default_preferences ==
    PyDict([temperature_preferences |->
                PyDict([prefers_warm |-> PyNone,
                        prefers_cool |-> PyNone,
                        comfortable_range |-> PyDict([min |-> PyNone, max |-> PyNone])]),
            weather_conditions |->
                PyDict([dislikes_cold |-> PyBool(FALSE),
                        dislikes_wind |-> PyBool(FALSE),
                        dislikes_rain |-> PyBool(FALSE),
                        prefers_sunny |-> PyBool(FALSE)]),
            activity_preferences |->
                PyDict([prefers_indoor |-> PyBool(FALSE),
                        prefers_outdoor |-> PyNone]),
            conversation_history |-> PyList(<<>>),
            last_updated |-> PyNone])

\* preferences[key] = value
SetKey(preferences, key, value) == PyDict((key :> value) @@ preferences.v)

\* preferences[section][key] = value
SetIn(preferences, section, key, value) ==
    SetKey(preferences, section, SetKey(preferences.v[section], key, value))

\* The stored preferences of the user merged over the defaults: every
\* top-level key of the file replaces the default.
LoadedPreferences(user_id) ==
    IF PREFERENCES_DIR[user_id] = NoFile THEN get_default_preferences
    ELSE PyDict(PREFERENCES_DIR[user_id].v @@ get_default_preferences.v)

\* The contents save_user_preferences writes at the time now.
SavedPreferences(preferences, now) == SetKey(preferences, "last_updated", isoformat(now))

\* Variant that keeps the oldest entries.
KeepLast_oldest(history) ==
    IF Len(history) > HistoryLimit THEN SubSeq(history, 1, HistoryLimit) ELSE history

\* history[-50:]
KeepLast(history) ==
    IF Len(history) > HistoryLimit
    THEN SubSeq(history, Len(history) - HistoryLimit + 1, Len(history))
    ELSE history

\* The preferences with the entry appended to the conversation history and
\* the history cut to its last 50 entries.
WithEntry(preferences, entry) ==
    SetKey(preferences, "conversation_history",
           PyList(KeepLast(Append(preferences.v.conversation_history.v, entry))))

\* The keyword rules of the GADK learner, in order: the words that trigger
\* the rule, the flag it sets, the test it makes of the flag ("not": the
\* flag is subscripted and must be false; "is None": get() must give None),
\* and the other flags it assigns.
gadk_rules ==
    <<[words |-> <<"cold", "freezing", "too cold", "hate cold", "dislike cold",
                   "don't like cold">>,
       section |-> "temperature_preferences", key |-> "dislikes_cold", test |-> "not",
       also |-> <<>>],
      [words |-> <<"hot", "too hot", "hate hot", "dislike hot", "don't like hot", "heat">>,
       section |-> "temperature_preferences", key |-> "dislikes_heat", test |-> "not",
       also |-> <<>>],
      [words |-> <<"warm", "love warm", "prefer warm", "like warm">>,
       section |-> "temperature_preferences", key |-> "prefers_warm", test |-> "is None",
       also |-> <<>>],
      [words |-> <<"cool", "prefer cool", "like cool">>,
       section |-> "temperature_preferences", key |-> "prefers_cool", test |-> "is None",
       also |-> <<>>],
      [words |-> <<"windy", "hate wind", "dislike wind", "too windy", "don't like wind">>,
       section |-> "weather_preferences", key |-> "dislikes_wind", test |-> "not",
       also |-> <<>>],
      [words |-> <<"hate rain", "dislike rain", "don't like rain", "hate rainy",
                   "dislike rainy">>,
       section |-> "weather_preferences", key |-> "dislikes_rain", test |-> "not",
       also |-> <<>>],
      [words |-> <<"indoor", "stay inside", "inside activities", "prefer indoor",
                   "like indoor">>,
       section |-> "activity_preferences", key |-> "prefers_indoor", test |-> "not",
       also |-> <<[section |-> "activity_preferences", key |-> "outdoor_activities",
                   value |-> PyBool(FALSE)],
                  [section |-> "weather_preferences", key |-> "prefers_indoor",
                   value |-> PyBool(TRUE)]>>],
      [words |-> <<"outdoor", "outside", "outdoors", "prefer outdoor", "like outdoor">>,
       section |-> "activity_preferences", key |-> "prefers_outdoor", test |-> "is None",
       also |-> <<[section |-> "activity_preferences", key |-> "outdoor_activities",
                   value |-> PyBool(TRUE)]>>],
      [words |-> <<"sunny", "love sun", "prefer sunny", "like sunny", "enjoy sunny">>,
       section |-> "weather_preferences", key |-> "prefers_sunny", test |-> "not",
       also |-> <<>>]>>

\* The keyword rules of the MS learner, in order; each sets its flag
\* without reading it.
ms_rules ==
    <<[words |-> <<"cold", "freezing", "too cold", "hate cold">>,
       section |-> "weather_conditions", key |-> "dislikes_cold"],
      [words |-> <<"warm", "love warm", "prefer warm", "like warm">>,
       section |-> "temperature_preferences", key |-> "prefers_warm"],
      [words |-> <<"cool", "prefer cool", "like cool">>,
       section |-> "temperature_preferences", key |-> "prefers_cool"],
      [words |-> <<"windy", "hate wind", "dislike wind", "too windy">>,
       section |-> "weather_conditions", key |-> "dislikes_wind"],
      [words |-> <<"hate rain", "dislike rain", "don't like rain">>,
       section |-> "weather_conditions", key |-> "dislikes_rain"],
      [words |-> <<"indoor", "stay inside", "inside activities">>,
       section |-> "activity_preferences", key |-> "prefers_indoor"],
      [words |-> <<"outdoor", "outside", "outdoors">>,
       section |-> "activity_preferences", key |-> "prefers_outdoor"],
      [words |-> <<"sunny", "love sun", "prefer sunny">>,
       section |-> "weather_conditions", key |-> "prefers_sunny"]>>

\* The other assignments of a rule.
RECURSIVE Assigned(_, _)
Assigned(preferences, also) ==
    IF also = <<>> THEN preferences
    ELSE Assigned(SetIn(preferences, also[1].section, also[1].key, also[1].value),
                  Tail(also))

\* One rule of the GADK learner on the preferences learned so far; a flag
\* that is subscripted and missing raises KeyError.
GADKRule(state, rule, message_lower) ==
    IF Raised(state) \/ ~AnyIn(message_lower, rule.words) THEN state
    ELSE LET flags == state.preferences.v[rule.section].v
             learned == [preferences |->
                             Assigned(SetIn(state.preferences, rule.section, rule.key,
                                            PyBool(TRUE)), rule.also),
                         learned_something |-> TRUE]
         IN IF rule.test = "not"
            THEN IF rule.key \notin DOMAIN flags THEN Raise("KeyError")
                 ELSE IF ~Truthy(flags[rule.key]) THEN learned ELSE state
            ELSE IF Get(flags, rule.key, PyNone).t = "NoneType" THEN learned ELSE state

RECURSIVE GADKRules(_, _, _)
GADKRules(state, rules, message_lower) ==
    IF rules = <<>> THEN state
    ELSE GADKRules(GADKRule(state, rules[1], message_lower), Tail(rules), message_lower)

\* weather_data is given, its temperature is below 10 degrees and the
\* message speaks of cold.
ColdSnapshot(weather_data, message_lower) ==
    /\ Truthy(weather_data)
    /\ Get(weather_data.v, "temperature", PyNum(0)).v < 100
    /\ Contains(message_lower, "cold")

\* learn_from_conversation of the GADK store up to its save: the preferences
\* it would save at the time now, or the exception it raises.
GADKLearned(preferences, user_message, response, weather_data, now) ==
    LET message_lower == Lower(user_message)
        conversation_entry ==
            IF Truthy(response)
            THEN [timestamp |-> isoformat(now), user_message |-> PyStr(user_message),
                  response |-> response]
            ELSE [timestamp |-> isoformat(now), user_message |-> PyStr(user_message)]
        by_keywords == GADKRules([preferences |-> WithEntry(preferences, conversation_entry),
                                  learned_something |-> FALSE],
                                 gadk_rules, message_lower)
    IN IF Raised(by_keywords) THEN by_keywords
       ELSE LET flags == by_keywords.preferences.v.temperature_preferences.v
                by_weather ==
                    IF ColdSnapshot(weather_data, message_lower)
                          /\ ~Truthy(flags.dislikes_cold)
                    THEN [preferences |-> SetIn(by_keywords.preferences,
                                                "temperature_preferences", "dislikes_cold",
                                                PyBool(TRUE)),
                          learned_something |-> TRUE]
                    ELSE by_keywords
                counted ==
                    IF by_weather.learned_something
                    THEN SetKey(by_weather.preferences, "learned_from_conversations",
                                PyNum(by_weather.preferences.v.learned_from_conversations.v + 1))
                    ELSE by_weather.preferences
            IN SavedPreferences(counted, now)

\* The flags update_preferences_from_conversation copies from the insights,
\* with the section of each.
insight_flags ==
    <<[section |-> "temperature_preferences", key |-> "dislikes_cold"],
      [section |-> "temperature_preferences", key |-> "dislikes_heat"],
      [section |-> "weather_preferences", key |-> "dislikes_rain"],
      [section |-> "weather_preferences", key |-> "dislikes_wind"],
      [section |-> "weather_preferences", key |-> "prefers_sunny"],
      [section |-> "weather_preferences", key |-> "prefers_indoor"],
      [section |-> "activity_preferences", key |-> "outdoor_activities"],
      [section |-> "activity_preferences", key |-> "sensitive_to_weather"]>>

RECURSIVE Copied(_, _, _)
Copied(preferences, conversation_insights, flags) ==
    IF flags = <<>> THEN preferences
    ELSE Copied(IF flags[1].key \in DOMAIN conversation_insights
                THEN SetIn(preferences, flags[1].section, flags[1].key,
                           conversation_insights[flags[1].key])
                ELSE preferences,
                conversation_insights, Tail(flags))

\* The comfortable range of the insights, when it is a list of two numbers.
WithRange(preferences, conversation_insights) ==
    LET new_range == Get(conversation_insights, "comfortable_temp_range", PyNone) IN
    IF Truthy(new_range) /\ new_range.t = "list" /\ Len(new_range.v) = 2
    THEN SetIn(SetIn(SetIn(preferences, "temperature_preferences", "comfortable_min",
                           PyNum(Min(new_range.v[1].v, new_range.v[2].v))),
                     "temperature_preferences", "comfortable_max",
                     PyNum(Max(new_range.v[1].v, new_range.v[2].v))),
               "temperature_preferences", "preferred_temp_range", new_range)
    ELSE preferences

\* update_preferences_from_conversation up to its save.
GADKUpdated(preferences, conversation_insights, now) ==
    LET copied == Copied(WithRange(preferences, conversation_insights),
                         conversation_insights, insight_flags)
        stored == IF "insight_text" \in DOMAIN conversation_insights
                  THEN WithEntry(copied,
                                 [insight |-> conversation_insights.insight_text,
                                  timestamp |-> Get(conversation_insights, "timestamp",
                                                    PyStr(""))])
                  ELSE copied
    IN SavedPreferences(SetKey(stored, "learned_from_conversations",
                               PyNum(stored.v.learned_from_conversations.v + 1)), now)

RECURSIVE MSRules(_, _, _)
MSRules(preferences, rules, message_lower) ==
    IF rules = <<>> THEN preferences
    ELSE MSRules(IF AnyIn(message_lower, rules[1].words)
                 THEN SetIn(preferences, rules[1].section, rules[1].key, PyBool(TRUE))
                 ELSE preferences,
                 Tail(rules), message_lower)

\* Variant of the MS learner that counts its calls as the GADK store does.
MSLearned_counting(preferences, user_message, weather_data, response, now) ==
    LET message_lower == Lower(user_message)
        by_keywords == MSRules(WithEntry(preferences,
                                         [timestamp |-> isoformat(now),
                                          user_message |-> PyStr(user_message),
                                          response |-> response]),
                               ms_rules, message_lower)
        by_weather == IF ColdSnapshot(weather_data, message_lower)
                      THEN SetIn(by_keywords, "weather_conditions", "dislikes_cold",
                                 PyBool(TRUE))
                      ELSE by_keywords
    IN SavedPreferences(
           SetKey(by_weather, "learned_from_conversations",
                  PyNum(Get(by_weather.v, "learned_from_conversations", PyNum(0)).v + 1)),
           now)

\* PreferencesManager.learn_from_conversation with its save.
MSLearned(preferences, user_message, weather_data, response, now) ==
    LET message_lower == Lower(user_message)
        by_keywords == MSRules(WithEntry(preferences,
                                         [timestamp |-> isoformat(now),
                                          user_message |-> PyStr(user_message),
                                          response |-> response]),
                               ms_rules, message_lower)
        by_weather == IF ColdSnapshot(weather_data, message_lower)
                      THEN SetIn(by_keywords, "weather_conditions", "dislikes_cold",
                                 PyBool(TRUE))
                      ELSE by_keywords
    IN SavedPreferences(by_weather, now)

\* The learning calls made so far are bounded.
MaxTurns == 3

\* No learning call has ended yet.
NoLearning == [turns |-> 0, op |-> "", user_id |-> "", exc |-> ""]

\* preferences.learn_from_conversation(user_id, user_message, response,
\* weather_data): the file is written at the end, so a call that raises
\* leaves it as it was.
preferences_learn_from_conversation(user_id, user_message, response, weather_data) ==
    /\ learning.turns < MaxTurns
    /\ LET now == clock + 1
           learned == GADKLearned(LoadedPreferences(user_id), user_message, response,
                                  weather_data, now)
       IN /\ clock' = now
          /\ PREFERENCES_DIR' = IF Raised(learned) THEN PREFERENCES_DIR
                                ELSE [PREFERENCES_DIR EXCEPT ![user_id] = learned]
          /\ learning' = [turns |-> learning.turns + 1,
                          op |-> "preferences.learn_from_conversation",
                          user_id |-> user_id,
                          user_message |-> user_message,
                          response |-> response,
                          before |-> LoadedPreferences(user_id),
                          now |-> now,
                          exc |-> IF Raised(learned) THEN learned.exc ELSE ""]
    /\ UNCHANGED <<evaluators, calls, _agent_cache, _runner_cache, preferences_files,
                   requests, _ms_preferences_manager, threads>>

\* preferences.update_preferences_from_conversation(user_id, insights)
preferences_update_preferences_from_conversation(user_id, conversation_insights) ==
    /\ learning.turns < MaxTurns
    /\ LET now == clock + 1 IN
          /\ clock' = now
          /\ PREFERENCES_DIR' =
                 [PREFERENCES_DIR EXCEPT ![user_id] =
                     GADKUpdated(LoadedPreferences(user_id), conversation_insights, now)]
          /\ learning' = [turns |-> learning.turns + 1,
                          op |-> "preferences.update_preferences_from_conversation",
                          user_id |-> user_id,
                          conversation_insights |-> conversation_insights,
                          before |-> LoadedPreferences(user_id),
                          now |-> now,
                          exc |-> ""]
    /\ UNCHANGED <<evaluators, calls, _agent_cache, _runner_cache, preferences_files,
                   requests, _ms_preferences_manager, threads>>

\* PreferencesManager.learn_from_conversation(user_message, weather_data,
\* response)
PreferencesManager_learn_from_conversation(user_message, weather_data, response) ==
    /\ learning.turns < MaxTurns
    /\ LET now == clock + 1 IN
          /\ clock' = now
          /\ _ms_preferences_manager' =
                 MSLearned(_ms_preferences_manager, user_message, weather_data, response, now)
          /\ learning' = [turns |-> learning.turns + 1,
                          op |-> "PreferencesManager.learn_from_conversation",
                          user_id |-> "",
                          user_message |-> user_message,
                          response |-> response,
                          before |-> _ms_preferences_manager,
                          now |-> now,
                          exc |-> ""]
    /\ UNCHANGED <<evaluators, calls, _agent_cache, _runner_cache, preferences_files,
                   requests, PREFERENCES_DIR, threads>>

----------------------------------------------------------------------------
(* The chat handlers that cache an agent and a runner per user *)

\* The two applications with such a handler (chat of GADK/app.py and
\* get_gadk_response of comparison_app.py); each has its own caches and
\* handles one request at a time, and both read and write the same
\* preference files.
Apps == {"GADK/app.py", "comparison_app.py"}
Users == {"default_user", "alice"}

\* The last value of the clock.
MaxClock == 4

\* A cache without an entry for a user, and with one.
NotCached == [cached |-> FALSE, agent |-> 0, stamp |-> 0]
Cached(agent, stamp) == [cached |-> TRUE, agent |-> agent, stamp |-> stamp]

\* cached_timestamp when the user has no cache entry.
None == -1

NoRequest ==
    [pc |-> "idle", user_id |-> "", current_prefs_timestamp |-> 0,
     cached_timestamp |-> None, should_create_agent |-> FALSE, runner |-> 0,
     status |-> 0]

\* The threads of the development server that serve chat requests at the
\* same time.
MaxThreads == 2

\* A thread that serves no request.
NoThread ==
    [pc |-> "idle", app |-> "", user_id |-> "", current_prefs_timestamp |-> 0,
     runner |-> 0, status |-> 0, exc |-> ""]

\* The saves the concurrent requests make are bounded.
MaxSaves == 2

\* The applications start with empty caches; no preference file exists.
AppsStarted ==
    /\ _agent_cache = [a \in Apps |-> [u \in Users |-> NotCached]]
    /\ _runner_cache = [a \in Apps |-> [u \in Users |-> NotCached]]
    /\ preferences_files = [u \in Users |-> 0]
    /\ clock = 0
    /\ requests = [a \in Apps |-> NoRequest]
    /\ PREFERENCES_DIR = [u \in Users |-> NoFile]
    /\ _ms_preferences_manager = _default_preferences
    /\ learning = NoLearning
    /\ threads = [t \in 1..MaxThreads |-> NoThread]

\* save_user_preferences: the file gets the time of the save.
save_user_preferences(user_id) ==
    /\ clock' = clock + 1
    /\ preferences_files' = [preferences_files EXCEPT ![user_id] = clock + 1]

\* A request arrives and the handler loads the user's stored preferences.
\* Every request in flight may still save twice.
load_user_preferences(a, user_id) ==
    /\ requests[a].pc = "idle"
    /\ clock + 2 * (Cardinality({b \in Apps : requests[b].pc # "idle"}) + 1) <= MaxClock
    /\ requests' = [requests EXCEPT ![a] =
                       [NoRequest EXCEPT !.pc = "agent", !.user_id = user_id,
                            !.current_prefs_timestamp = preferences_files[user_id]]]
    /\ UNCHANGED <<_agent_cache, _runner_cache, preferences_files, clock>>

\* Variant that rebuilds the agent only when the user has no cache entry.
ShouldCreateAgent_when_absent(entry, current_prefs_timestamp) == ~entry.cached

\* The handler's test of the cache entry of the user.
ShouldCreateAgent(entry, current_prefs_timestamp) ==
    IF ~entry.cached THEN TRUE
    ELSE entry.stamp # current_prefs_timestamp

\* The handler builds an agent from the preferences stored now and a runner
\* for it, and caches both with the timestamp it loaded, or takes the
\* cached runner.
create_agent_with_preferences(a) ==
    /\ requests[a].pc = "agent"
    /\ LET user_id == requests[a].user_id
           entry == _agent_cache[a][user_id]
           current_prefs_timestamp == requests[a].current_prefs_timestamp
           should_create_agent == ShouldCreateAgent(entry, current_prefs_timestamp)
           agent == preferences_files[user_id]
       IN /\ requests' = [requests EXCEPT ![a].pc = "run",
                              ![a].cached_timestamp = IF entry.cached THEN entry.stamp
                                                      ELSE None,
                              ![a].should_create_agent = should_create_agent,
                              ![a].runner = IF should_create_agent THEN agent
                                            ELSE _runner_cache[a][user_id].agent]
          /\ IF should_create_agent
             THEN /\ _agent_cache' = [_agent_cache EXCEPT ![a][user_id] =
                                         Cached(agent, current_prefs_timestamp)]
                  /\ _runner_cache' = [_runner_cache EXCEPT ![a][user_id] =
                                          Cached(agent, current_prefs_timestamp)]
             ELSE UNCHANGED <<_agent_cache, _runner_cache>>
    /\ UNCHANGED <<preferences_files, clock>>

\* runner.run: the agent may call update_user_preferences_from_insight,
\* which saves the preferences, and the run ends with a response or with
\* an exception, which ends the request with status 500.
run(a) ==
    /\ requests[a].pc = "run"
    /\ \E updates \in BOOLEAN, fails \in BOOLEAN :
          /\ IF updates THEN save_user_preferences(requests[a].user_id)
             ELSE UNCHANGED <<preferences_files, clock>>
          /\ requests' = [requests EXCEPT ![a].pc = IF fails THEN "idle" ELSE "learn",
                              ![a].status = IF fails THEN 500 ELSE 0]
    /\ UNCHANGED <<_agent_cache, _runner_cache>>

\* learn_from_conversation records the turn and saves, or raises KeyError
\* before it saves (a message with an indoor keyword), which ends the
\* request with status 500 and leaves the caches as they are.
learn_from_conversation(a) ==
    /\ requests[a].pc = "learn"
    /\ \E raises \in BOOLEAN :
          IF raises
          THEN /\ requests' = [requests EXCEPT ![a].pc = "idle", ![a].status = 500]
               /\ UNCHANGED <<preferences_files, clock>>
          ELSE /\ save_user_preferences(requests[a].user_id)
               /\ requests' = [requests EXCEPT ![a].pc = "invalidate"]
    /\ UNCHANGED <<_agent_cache, _runner_cache>>

\* The handler drops the user's cache entries and answers.
invalidate(a) ==
    /\ requests[a].pc = "invalidate"
    /\ _agent_cache' = [_agent_cache EXCEPT ![a][requests[a].user_id] = NotCached]
    /\ _runner_cache' = [_runner_cache EXCEPT ![a][requests[a].user_id] = NotCached]
    /\ requests' = [requests EXCEPT ![a].pc = "idle", ![a].status = 200]
    /\ UNCHANGED <<preferences_files, clock>>

\* What the other variables of a thread's step keep.
ThreadStep == UNCHANGED <<evaluators, calls, requests, store_vars>>

\* The request of the thread ends with an exception: the handler answers
\* with status 500 and the thread is free again.
Failed(t, e) == [NoThread EXCEPT !.status = 500, !.exc = e]

\* The request of the thread ends with an answer.
Answered(t) == [NoThread EXCEPT !.status = 200]

\* A thread takes a request of a user with an application and loads the
\* user's stored preferences; the saves the requests make are bounded.
chat(t, a, user_id) ==
    /\ threads[t].pc = "idle"
    /\ clock < MaxSaves
    /\ threads' = [threads EXCEPT ![t] =
                      [NoThread EXCEPT !.pc = "test", !.app = a, !.user_id = user_id,
                           !.current_prefs_timestamp = preferences_files[user_id]]]
    /\ UNCHANGED <<_agent_cache, _runner_cache, preferences_files, clock>>
    /\ ThreadStep

\* if user_id not in _agent_cache
test_agent_cache(t) ==
    /\ threads[t].pc = "test"
    /\ threads' = [threads EXCEPT ![t].pc =
                      IF _agent_cache[threads[t].app][threads[t].user_id].cached
                      THEN "stamp" ELSE "cache_agent"]
    /\ UNCHANGED <<_agent_cache, _runner_cache, preferences_files, clock>>
    /\ ThreadStep

\* cached_timestamp = _agent_cache[user_id][1], compared with the timestamp
\* of the preferences loaded.
read_cached_timestamp(t) ==
    /\ threads[t].pc = "stamp"
    /\ LET entry == _agent_cache[threads[t].app][threads[t].user_id] IN
       threads' = [threads EXCEPT ![t] =
                      IF ~entry.cached THEN Failed(t, "KeyError")
                      ELSE [threads[t] EXCEPT
                               !.pc = IF ShouldCreateAgent(entry,
                                                           threads[t].current_prefs_timestamp)
                                      THEN "cache_agent" ELSE "lookup"]]
    /\ UNCHANGED <<_agent_cache, _runner_cache, preferences_files, clock>>
    /\ ThreadStep

\* The agent is built from the preferences stored now;
\* _agent_cache[user_id] = (agent, current_prefs_timestamp)
cache_agent(t) ==
    /\ threads[t].pc = "cache_agent"
    /\ _agent_cache' = [_agent_cache EXCEPT ![threads[t].app][threads[t].user_id] =
                           Cached(preferences_files[threads[t].user_id],
                                  threads[t].current_prefs_timestamp)]
    /\ threads' = [threads EXCEPT ![t].pc = "cache_runner",
                                  ![t].runner = preferences_files[threads[t].user_id]]
    /\ UNCHANGED <<_runner_cache, preferences_files, clock>>
    /\ ThreadStep

\* _runner_cache[user_id] = runner
cache_runner(t) ==
    /\ threads[t].pc = "cache_runner"
    /\ _runner_cache' = [_runner_cache EXCEPT ![threads[t].app][threads[t].user_id] =
                            Cached(threads[t].runner, threads[t].current_prefs_timestamp)]
    /\ threads' = [threads EXCEPT ![t].pc = "run"]
    /\ UNCHANGED <<_agent_cache, preferences_files, clock>>
    /\ ThreadStep

\* runner = _runner_cache[user_id]
lookup_runner(t) ==
    /\ threads[t].pc = "lookup"
    /\ LET entry == _runner_cache[threads[t].app][threads[t].user_id] IN
       threads' = [threads EXCEPT ![t] =
                      IF ~entry.cached THEN Failed(t, "KeyError")
                      ELSE [threads[t] EXCEPT !.pc = "run", !.runner = entry.agent]]
    /\ UNCHANGED <<_agent_cache, _runner_cache, preferences_files, clock>>
    /\ ThreadStep

\* The run of the agent, which may save new preferences and may fail.
run_agent(t) ==
    /\ threads[t].pc = "run"
    /\ \E updates \in BOOLEAN, fails \in BOOLEAN :
          /\ IF updates /\ clock < MaxSaves THEN save_user_preferences(threads[t].user_id)
             ELSE UNCHANGED <<preferences_files, clock>>
          /\ threads' = [threads EXCEPT ![t] =
                            IF fails THEN Failed(t, "Exception")
                            ELSE [threads[t] EXCEPT !.pc = "learn"]]
    /\ UNCHANGED <<_agent_cache, _runner_cache>>
    /\ ThreadStep

\* learn_from_conversation saves the turn, or raises KeyError before it
\* saves.
learn_turn(t) ==
    /\ threads[t].pc = "learn"
    /\ \E raises \in BOOLEAN :
          IF raises
          THEN /\ threads' = [threads EXCEPT ![t] = Failed(t, "KeyError")]
               /\ UNCHANGED <<preferences_files, clock>>
          ELSE /\ clock < MaxSaves
               /\ save_user_preferences(threads[t].user_id)
               /\ threads' = [threads EXCEPT ![t].pc = "test_agent"]
    /\ UNCHANGED <<_agent_cache, _runner_cache>>
    /\ ThreadStep

\* if user_id in _agent_cache
test_invalidate(t) ==
    /\ threads[t].pc = "test_agent"
    /\ threads' = [threads EXCEPT ![t] =
                      IF _agent_cache[threads[t].app][threads[t].user_id].cached
                      THEN [threads[t] EXCEPT !.pc = "del_agent"]
                      ELSE Answered(t)]
    /\ UNCHANGED <<_agent_cache, _runner_cache, preferences_files, clock>>
    /\ ThreadStep

\* del _agent_cache[user_id]
del_agent(t) ==
    /\ threads[t].pc = "del_agent"
    /\ IF _agent_cache[threads[t].app][threads[t].user_id].cached
       THEN /\ _agent_cache' = [_agent_cache EXCEPT
                                   ![threads[t].app][threads[t].user_id] = NotCached]
            /\ threads' = [threads EXCEPT ![t].pc = "test_runner"]
       ELSE /\ threads' = [threads EXCEPT ![t] = Failed(t, "KeyError")]
            /\ UNCHANGED _agent_cache
    /\ UNCHANGED <<_runner_cache, preferences_files, clock>>
    /\ ThreadStep

\* if user_id in _runner_cache
test_runner(t) ==
    /\ threads[t].pc = "test_runner"
    /\ threads' = [threads EXCEPT ![t] =
                      IF _runner_cache[threads[t].app][threads[t].user_id].cached
                      THEN [threads[t] EXCEPT !.pc = "del_runner"]
                      ELSE Answered(t)]
    /\ UNCHANGED <<_agent_cache, _runner_cache, preferences_files, clock>>
    /\ ThreadStep

\* del _runner_cache[user_id]
del_runner(t) ==
    /\ threads[t].pc = "del_runner"
    /\ IF _runner_cache[threads[t].app][threads[t].user_id].cached
       THEN /\ _runner_cache' = [_runner_cache EXCEPT
                                    ![threads[t].app][threads[t].user_id] = NotCached]
            /\ threads' = [threads EXCEPT ![t] = Answered(t)]
       ELSE /\ threads' = [threads EXCEPT ![t] = Failed(t, "KeyError")]
            /\ UNCHANGED _runner_cache
    /\ UNCHANGED <<_agent_cache, preferences_files, clock>>
    /\ ThreadStep

----------------------------------------------------------------------------
(* Specifications *)

\* One caller and one evaluator, arguments from EvalPools.
InitEval ==
    /\ evaluators = [e \in {1} |-> __init__]
    /\ calls = [c \in {1} |-> Idle]
    /\ AppsStarted

NextEval ==
    \E c \in DOMAIN calls :
        \/ \E e \in DOMAIN evaluators : CallFrom(c, e, EvalPools)
        \/ Step(c)
        \/ Return(c)

SpecEval == InitEval /\ [][NextEval]_vars

\* Bounds of the other specifications.
MaxCallers == 2
MaxEvaluators == 2
MaxLatency == 400
MaxToolCalls == 12
TemperatureSteps == 50

\* Concurrent callers on shared or separate evaluators choose between two
\* turns: one with a snapshot, preferences and telemetry, one with none.
ConcurrentPools ==
    <<[user_query |-> SubSeq(Queries, 2, 2),
       response |-> <<"Rain in Oslo, I suggest an umbrella.">>,
       framework_name |-> SubSeq(Frameworks, 1, 1),
       weather_data_used |-> <<CurrentWeather(PyNum(100), PyStr("rain"))>>,
       conversation_history |-> SubSeq(Histories, 2, 2),
       user_preferences |-> SubSeq(Preferences, 6, 6),
       response_time |-> <<PyNum(35)>>, tool_call_count |-> <<PyNum(2)>>],
      [user_query |-> SubSeq(Queries, 3, 3), response |-> SubSeq(Responses, 2, 2),
       framework_name |-> SubSeq(Frameworks, 2, 2),
       weather_data_used |-> <<PyNone>>, conversation_history |-> <<PyNone>>,
       user_preferences |-> <<PyNone>>,
       response_time |-> <<PyNone>>, tool_call_count |-> <<PyNone>>]>>

Init ==
    /\ evaluators = [e \in 1..MaxEvaluators |-> __init__]
    /\ calls = [c \in 1..MaxCallers |-> Idle]
    /\ AppsStarted

Next ==
    \E c \in DOMAIN calls :
        \/ \E e \in DOMAIN evaluators : CallFrom(c, e, ConcurrentPools)
        \/ Step(c)
        \/ Return(c)

Spec == Init /\ [][Next]_vars

\* Every latency from 0 to MaxLatency tenths of a second.
TimePools ==
    <<[user_query |-> SubSeq(Queries, 1, 1), response |-> SubSeq(Responses, 1, 1),
       framework_name |-> <<"GADK">>, weather_data_used |-> <<PyNone>>,
       conversation_history |-> <<PyNone>>, user_preferences |-> <<PyNone>>,
       response_time |-> [i \in 1..(MaxLatency + 1) |-> PyNum(i - 1)],
       tool_call_count |-> <<PyNone>>]>>

NextTime ==
    \E c \in DOMAIN calls :
        \/ \E e \in DOMAIN evaluators : CallFrom(c, e, TimePools)
        \/ Step(c)
        \/ Return(c)

SpecTime == InitEval /\ [][NextTime]_vars

\* Every tool-call count from 0 to MaxToolCalls.
ToolPools ==
    <<[user_query |-> SubSeq(Queries, 1, 1), response |-> SubSeq(Responses, 1, 1),
       framework_name |-> <<"GADK">>, weather_data_used |-> <<PyNone>>,
       conversation_history |-> <<PyNone>>, user_preferences |-> <<PyNone>>,
       response_time |-> <<PyNone>>,
       tool_call_count |-> [i \in 1..(MaxToolCalls + 1) |-> PyNum(i - 1)]]>>

NextTool ==
    \E c \in DOMAIN calls :
        \/ \E e \in DOMAIN evaluators : CallFrom(c, e, ToolPools)
        \/ Step(c)
        \/ Return(c)

SpecTool == InitEval /\ [][NextTool]_vars

\* Responses that state a temperature in each of the forms temp_patterns
\* knows, or none at all.
TemperatureResponses ==
    <<"It's 15°C and sunny today",
      "Tomorrow will be 12.5 °C in Paris; I recommend a coat.",
      "Temperature: 8, with showers later",
      "Around 20 degrees celsius and cloudy",
      "Rainy, 9 ° at noon",
      "The temperature in Helsinki is 11 degrees with light rain.">>

\* Current-conditions snapshots: every temperature from 0.5 to
\* TemperatureSteps / 2 degrees in steps of 0.5, with a known condition, an
\* unknown one and none.
AccuracyPools ==
    <<[user_query |-> SubSeq(Queries, 1, 1), response |-> TemperatureResponses,
       framework_name |-> <<"GADK">>,
       weather_data_used |->
           [i \in 1..(4 * TemperatureSteps) |->
               CurrentWeather(PyNum(5 * ((i - 1) \div 4 + 1)),
                              PyStr(<<"rain", "clear", "tornado", "">>[((i - 1) % 4) + 1]))],
       conversation_history |-> <<PyNone>>, user_preferences |-> <<PyNone>>,
       response_time |-> <<PyNone>>, tool_call_count |-> <<PyNone>>]>>

NextAccuracy ==
    \E c \in DOMAIN calls :
        \/ \E e \in DOMAIN evaluators : CallFrom(c, e, AccuracyPools)
        \/ Step(c)
        \/ Return(c)

SpecAccuracy == InitEval /\ [][NextAccuracy]_vars

\* Responses at the edges of the text scorers: short apologies, short and
\* whitespace-padded answers, answers with and without weather words,
\* figures and advice, a clarifying question, long answers.
TextResponses ==
    <<"Sorry, no.",
      "Sorry, I couldn't get that.",
      "Done.",
      "All set for you.      ",
      "Tomorrow will be 12.5 °C in Paris; I recommend a coat.",
      "Which city do you mean? It is sunny in Oslo.",
      "It is a nice day out there, enjoy it.",
      "It is 11 in Helsinki with rain.",
      "The temperature in Helsinki is 11 degrees with light rain. You should bring an umbrella because it is cold, so wear a warm jacket.",
      "Error: unable to fetch the forecast because the weather service failed; please provide a city name, for example Oslo.">>

\* A weather query, a weather query that names no place and a greeting
\* against every text, with and without a snapshot.
TextPools ==
    <<[user_query |-> <<"What's the weather in Helsinki today?",
                        "Should I bring an umbrella tomorrow?", "hi">>,
       response |-> TextResponses,
       framework_name |-> <<"GADK">>,
       weather_data_used |-> <<PyNone, CurrentWeather(PyNum(110), PyStr("rain"))>>,
       conversation_history |-> <<PyNone>>, user_preferences |-> <<PyNone>>,
       response_time |-> <<PyNone>>, tool_call_count |-> <<PyNone>>]>>

NextText ==
    \E c \in DOMAIN calls :
        \/ \E e \in DOMAIN evaluators : CallFrom(c, e, TextPools)
        \/ Step(c)
        \/ Return(c)

SpecText == InitEval /\ [][NextText]_vars

\* The largest learned count of the preference states below.
MaxLearned == 1

\* The flags the adaptation scorer knows.
flag_names == <<"dislikes_cold", "dislikes_heat", "dislikes_rain", "prefers_indoor",
                "outdoor_activities">>

\* The k-th subset of a sequence of flags.
FlagsOf(k, names) == {names[i] : i \in {j \in 1..Len(names) : (k \div (2 ^ (j - 1))) % 2 = 1}}

\* The state the GADK store keeps for a set of learned flags and a count
\* of n preference updates.
GADKState(F, n) ==
    PyDict([temperature_preferences |->
                PyDict([dislikes_cold |-> PyBool("dislikes_cold" \in F),
                        dislikes_heat |-> PyBool("dislikes_heat" \in F)]),
            weather_preferences |->
                PyDict([dislikes_rain |-> PyBool("dislikes_rain" \in F),
                        prefers_indoor |-> PyBool("prefers_indoor" \in F)]),
            activity_preferences |->
                PyDict([outdoor_activities |-> PyBool("outdoor_activities" \in F)]),
            learned_from_conversations |-> PyNum(n)])

\* The state the MS manager keeps for the same flags: it has no flag for
\* heat, records outdoor activities as prefers_outdoor (None until learned)
\* and keeps no count; n > 0 adds the count to the state.
MSState(F, n) ==
    LET stored == [temperature_preferences |->
                       PyDict([prefers_warm |-> PyNone, prefers_cool |-> PyNone]),
                   weather_conditions |->
                       PyDict([dislikes_cold |-> PyBool("dislikes_cold" \in F),
                               dislikes_rain |-> PyBool("dislikes_rain" \in F)]),
                   activity_preferences |->
                       PyDict([prefers_indoor |-> PyBool("prefers_indoor" \in F),
                               prefers_outdoor |-> IF "outdoor_activities" \in F
                                                   THEN PyBool(TRUE) ELSE PyNone])]
    IN PyDict(IF n > 0 THEN [learned_from_conversations |-> PyNum(n)] @@ stored
              ELSE stored)

\* The flags the MS schema can express.
ms_flag_names == <<"dislikes_cold", "dislikes_rain", "prefers_indoor", "outdoor_activities">>

\* Every set of flags with every count from 0 to MaxLearned, in the GADK
\* schema and, for the flags it can express, in the MS schema.
AdaptationPreferences ==
    [i \in 1..(32 * (MaxLearned + 1)) |->
        GADKState(FlagsOf((i - 1) % 32, flag_names), (i - 1) \div 32)]
    \o [i \in 1..(16 * (MaxLearned + 1)) |->
        MSState(FlagsOf((i - 1) % 16, ms_flag_names), (i - 1) \div 16)]

\* Responses with every adaptation trigger but 'outdoor', with 'outdoor',
\* and with none.
AdaptationResponses ==
    <<"Based on your preference: it is cold and rainy, so stay indoor, keep warm with a coat and an umbrella, and stay cool in the shade.",
      "A fine day for outdoor sports, it is warm.",
      "It is 11 in Helsinki.">>

AdaptationPools ==
    <<[user_query |-> <<"What's the weather in Helsinki today?">>,
       response |-> AdaptationResponses,
       framework_name |-> <<"GADK">>,
       weather_data_used |-> <<PyNone>>,
       conversation_history |-> <<PyNone>>,
       user_preferences |-> AdaptationPreferences,
       response_time |-> <<PyNone>>, tool_call_count |-> <<PyNone>>]>>

NextAdaptation ==
    \E c \in DOMAIN calls :
        \/ \E e \in DOMAIN evaluators : CallFrom(c, e, AdaptationPools)
        \/ Step(c)
        \/ Return(c)

SpecAdaptation == InitEval /\ [][NextAdaptation]_vars

\* Chat turns of the users with both applications.
NextChat ==
    /\ \E a \in Apps :
          \/ \E user_id \in Users : load_user_preferences(a, user_id)
          \/ create_agent_with_preferences(a)
          \/ run(a)
          \/ learn_from_conversation(a)
          \/ invalidate(a)
    /\ UNCHANGED <<evaluators, calls, store_vars, threads>>

SpecChat == InitEval /\ [][NextChat]_vars

\* Responses for the planning scorer: weather before advice with a flow
\* word, advice before weather, weather only, advice only, missing data
\* acknowledged, none of these.
PlanningResponses ==
    <<"The temperature is 11 degrees, so first I recommend a jacket.",
      "I recommend a jacket, the temperature is 11 degrees.",
      "Temperature: 11 degrees.",
      "You should bring an umbrella.",
      "No weather data for now, then try again.",
      "Hello there!">>

\* A weather query and a greeting, with and without a snapshot, with and
\* without tool calls.
PlanningPools ==
    <<[user_query |-> <<"What's the weather in Helsinki today?", "hi">>,
       response |-> PlanningResponses,
       framework_name |-> <<"GADK">>,
       weather_data_used |-> <<PyNone, CurrentWeather(PyNum(110), PyStr("rain"))>>,
       conversation_history |-> <<PyNone>>, user_preferences |-> <<PyNone>>,
       response_time |-> <<PyNone>>,
       tool_call_count |-> <<PyNone, PyNum(0), PyNum(2)>>]>>

NextPlanning ==
    \E c \in DOMAIN calls :
        \/ \E e \in DOMAIN evaluators : CallFrom(c, e, PlanningPools)
        \/ Step(c)
        \/ Return(c)

SpecPlanning == InitEval /\ [][NextPlanning]_vars

\* Inputs of the repeatability scorer: responses with and without the
\* structural features, hedging language, a very short and a very long
\* response, against no history, a similar earlier turn with every feature
\* and a similar earlier turn with a temperature only.
RECURSIVE Repeated(_, _)
Repeated(text, n) == IF n = 0 THEN "" ELSE text \o Repeated(text, n - 1)

RepeatResponses ==
    <<"The temperature is 11 degrees, you should wear a jacket.",
      "Maybe it is 11 degrees, perhaps a little less.",
      "Sunny.",
      "It will be a fine and pleasant day in town.",
      "The weather stays fine. " \o Repeated("It stays dry and bright all day long. ", 26),
      "Maybe you should wear a jacket.">>

RepeatHistories ==
    <<PyNone,
      PyList(<<[user |-> "What is the weather in Helsinki tomorrow?",
                assistant |-> "The temperature is 10 degrees, you should wear a jacket"]>>),
      PyList(<<[user_message |-> "hello"],
               [user_message |-> "Tell me the weather for Helsinki",
                response |-> "Temperature: 9"]>>)>>

RepeatPools ==
    <<[user_query |-> <<"What's the weather in Helsinki today?", "hi">>,
       response |-> RepeatResponses,
       framework_name |-> <<"GADK">>,
       weather_data_used |-> <<PyNone>>,
       conversation_history |-> RepeatHistories,
       user_preferences |-> <<PyNone>>,
       response_time |-> <<PyNone>>,
       tool_call_count |-> <<PyNone>>]>>

NextRepeat ==
    \E c \in DOMAIN calls :
        \/ \E e \in DOMAIN evaluators : CallFrom(c, e, RepeatPools)
        \/ Step(c)
        \/ Return(c)

SpecRepeat == InitEval /\ [][NextRepeat]_vars

\* Inputs of the framework scorers: both known frameworks against responses
\* without an error marker and with a descriptive, a brief, a long but
\* unexplained and an upper-case error message.
FrameworkResponses ==
    <<"The temperature in Helsinki is 11 degrees with light rain.",
      "Error: unable to fetch the forecast because the weather service failed.",
      "Error: timeout",
      "error: unable",
      "Error: something went wrong while looking up the weather for that city.",
      "ERROR: the weather service could not be reached, so no forecast is available.",
      "It failed",
      "">>

FrameworkPools ==
    <<[user_query |-> <<"What's the weather in Helsinki today?", "hi">>,
       response |-> FrameworkResponses,
       framework_name |-> <<"GADK", "MS">>,
       weather_data_used |-> <<PyNone>>,
       conversation_history |-> <<PyNone>>,
       user_preferences |-> <<PyNone>>,
       response_time |-> <<PyNone>>,
       tool_call_count |-> <<PyNone>>]>>

NextFramework ==
    \E c \in DOMAIN calls :
        \/ \E e \in DOMAIN evaluators : CallFrom(c, e, FrameworkPools)
        \/ Step(c)
        \/ Return(c)

SpecFramework == InitEval /\ [][NextFramework]_vars

\* The turns default_user has had before the first state: one short of the
\* history limit.
StoredTurns == 49

\* The entries n plain turns at the times 1..n leave in a history.
PlainTurns(n) ==
    [i \in 1..n |-> [timestamp |-> isoformat(i), user_message |-> PyStr("hi"),
                     response |-> PyStr("Hello!")]]

\* The preferences of the GADK store after n plain turns, none of which
\* taught anything: the defaults with the turns and the time of the last
\* save.
GADKAfter(n) ==
    IF n = 0 THEN get_default_preferences
    ELSE SavedPreferences(SetKey(get_default_preferences, "conversation_history",
                                 PyList(PlainTurns(n))), n)

\* The preferences of the MS manager after n plain turns.
MSAfter(n) ==
    IF n = 0 THEN _default_preferences
    ELSE SavedPreferences(SetKey(_default_preferences, "conversation_history",
                                 PyList(PlainTurns(n))), n)

\* The turns of the learning calls: a plain message with a response, a
\* plain message without one against a cold snapshot, a message with the
\* indoor keyword, and a message that teaches three flags against a cold
\* snapshot.
StoreTurns ==
    {[user_message |-> "What's the weather in Oslo?",
      response |-> PyStr("It is 5 degrees in Oslo."), weather_data |-> PyNone],
     [user_message |-> "thanks",
      response |-> PyNone, weather_data |-> PyDict([temperature |-> PyNum(50)])],
     [user_message |-> "I prefer indoor activities",
      response |-> PyStr("Noted."), weather_data |-> PyNone],
     [user_message |-> "It is too cold, I love warm days outside",
      response |-> PyStr("It is 5 degrees in Oslo."),
      weather_data |-> PyDict([temperature |-> PyNum(50)])]}

\* The insights of the agent: flags with a range, and a flag with a text.
StoreInsights ==
    {[dislikes_rain |-> PyBool(TRUE),
      comfortable_temp_range |-> PyList(<<PyNum(240), PyNum(180)>>)],
     [insight_text |-> PyStr("prefers sunny days"), prefers_sunny |-> PyBool(TRUE)]}

\* default_user has had StoredTurns turns with both stores; alice is new.
InitStore ==
    /\ evaluators = [e \in {1} |-> __init__]
    /\ calls = [c \in {1} |-> Idle]
    /\ _agent_cache = [a \in Apps |-> [u \in Users |-> NotCached]]
    /\ _runner_cache = [a \in Apps |-> [u \in Users |-> NotCached]]
    /\ preferences_files = [u \in Users |-> 0]
    /\ requests = [a \in Apps |-> NoRequest]
    /\ clock = StoredTurns
    /\ PREFERENCES_DIR = [u \in Users |-> IF u = "default_user" THEN GADKAfter(StoredTurns)
                                          ELSE NoFile]
    /\ _ms_preferences_manager = MSAfter(StoredTurns)
    /\ learning = NoLearning
    /\ threads = [t \in 1..MaxThreads |-> NoThread]

NextStore ==
    \/ \E user_id \in Users, turn \in StoreTurns :
          preferences_learn_from_conversation(user_id, turn.user_message, turn.response,
                                              turn.weather_data)
    \/ \E user_id \in Users, conversation_insights \in StoreInsights :
          preferences_update_preferences_from_conversation(user_id, conversation_insights)
    \/ \E turn \in StoreTurns :
          PreferencesManager_learn_from_conversation(turn.user_message, turn.weather_data,
                                                     turn.response)

SpecStore == InitStore /\ [][NextStore]_vars

\* The turns of the MS assistant: what the user said, the snapshot used and
\* the answer given.
MSTurns ==
    {[user_message |-> "It is too cold, I hate rain and love staying indoor",
      weather_data |-> PyDict([temperature |-> PyNum(50)]),
      response |-> "Based on your preference: it is cold and rainy, so stay indoor, keep warm with a coat and an umbrella, and stay cool in the shade."],
     [user_message |-> "What's the weather in Oslo?",
      weather_data |-> PyNone,
      response |-> "It is 5 degrees in Oslo."],
     [user_message |-> "I like outdoor sports",
      weather_data |-> PyNone,
      response |-> "A fine day for outdoor sports, it is warm."]}

\* get_ms_response: the MS assistant answers and its manager learns from the
\* turn with str(response); the next turn waits for the evaluation.
get_ms_response(turn) ==
    /\ \A c \in DOMAIN calls : calls[c].status # "running"
    /\ PreferencesManager_learn_from_conversation(turn.user_message, turn.weather_data,
                                                  PyStr(turn.response))

\* The history the chat handler passes to the evaluator: the stored turns
\* but those of the message under evaluation.
RECURSIVE ms_conversation_history(_, _)
ms_conversation_history(history, message) ==
    IF history = <<>> THEN <<>>
    ELSE (IF Get(history[1], "user_message", PyNone) # PyStr(message)
          THEN <<[user |-> Get(history[1], "user_message", PyStr("")).v,
                  assistant |-> Get(history[1], "response", PyStr("")).v]>>
          ELSE <<>>)
         \o ms_conversation_history(Tail(history), message)

\* The chat handler evaluates the MS answer of the turn with the
\* preferences the manager holds now.
evaluate_ms_response(c, e) ==
    /\ learning.op = "PreferencesManager.learn_from_conversation"
    /\ Call(c, e, [user_query |-> learning.user_message,
                   response |-> learning.response.v,
                   framework_name |-> "MS",
                   weather_data_used |-> PyNone,
                   conversation_history |->
                       PyList(ms_conversation_history(
                                  _ms_preferences_manager.v.conversation_history.v,
                                  learning.user_message)),
                   user_preferences |-> _ms_preferences_manager,
                   response_time |-> PyNum(35),
                   tool_call_count |-> PyNone])

NextMS ==
    \/ \E turn \in MSTurns : get_ms_response(turn)
    \/ \E c \in DOMAIN calls :
          \/ \E e \in DOMAIN evaluators : evaluate_ms_response(c, e)
          \/ Step(c)
          \/ Return(c)

SpecMS == InitEval /\ [][NextMS]_vars

\* Concurrent chat requests of the users with the GADK application.
NextThreads ==
    \E t \in DOMAIN threads :
        \/ \E user_id \in Users : chat(t, "GADK/app.py", user_id)
        \/ test_agent_cache(t)
        \/ read_cached_timestamp(t)
        \/ cache_agent(t)
        \/ cache_runner(t)
        \/ lookup_runner(t)
        \/ run_agent(t)
        \/ learn_turn(t)
        \/ test_invalidate(t)
        \/ del_agent(t)
        \/ test_runner(t)
        \/ del_runner(t)

SpecThreads == InitEval /\ [][NextThreads]_vars

----------------------------------------------------------------------------
(* Properties of evaluate_response under SpecEval *)

ReportKeys ==
    {"accuracy", "task_completion", "recommendation_quality", "context_retention",
     "adaptation_quality", "response_time", "tool_call_count", "action_planning",
     "error_recovery", "implementation_effort", "integration_simplicity",
     "debuggability", "ambiguity_handling", "repeatability"}

Entered(c) == calls[c].status # "idle"
Returned(c) == calls[c].status = "returned"
Absent(v) == v.t = "NoneType"

OptionalAbsent(a) ==
    /\ Absent(a.weather_data_used)
    /\ Absent(a.conversation_history)
    /\ Absent(a.user_preferences)
    /\ Absent(a.response_time)
    /\ Absent(a.tool_call_count)

\* C1: whatever the inputs, the score of every metric result that
\* evaluate_response computes lies in [0.0, 1.0] (0..100 hundredths).
C1_ScoresInUnitInterval ==
    \A c \in DOMAIN calls :
        \A k \in DOMAIN calls[c].metrics :
            calls[c].metrics[k].score \in 0..100

\* A report whose error-recovery arithmetic went past 1.0 before the clamp.
C1_Witness ==
    \E c \in DOMAIN calls :
        /\ Returned(c)
        /\ calls[c].args.response = Responses[5]
        /\ Absent(calls[c].args.weather_data_used)
        /\ calls[c].metrics["error_recovery"].score = 100
        /\ calls[c].metrics["action_planning"].score = 0

\* C2 as stated: with every optional argument absent the call never raises
\* and returns exactly the fourteen keys, each with score 0.5.
C2_AllNeutralWhenOptionalAbsent ==
    \A c \in DOMAIN calls :
        Entered(c) /\ OptionalAbsent(calls[c].args) =>
            /\ calls[c].status # "raised"
            /\ Returned(c) =>
                /\ DOMAIN calls[c].metrics = ReportKeys
                /\ \A k \in ReportKeys : calls[c].metrics[k].score = 50

\* C2 amended: with every optional argument absent the call never raises
\* and returns exactly the fourteen keys; accuracy, context_retention,
\* adaptation_quality, response_time and tool_call_count score 0.5, the
\* other nine depend on the query, the response and the framework.
C2_InputScorersNeutralWhenOptionalAbsent ==
    \A c \in DOMAIN calls :
        Entered(c) /\ OptionalAbsent(calls[c].args) =>
            /\ calls[c].status # "raised"
            /\ Returned(c) =>
                /\ DOMAIN calls[c].metrics = ReportKeys
                /\ \A k \in {"accuracy", "context_retention", "adaptation_quality",
                             "response_time", "tool_call_count"} :
                       calls[c].metrics[k].score = 50

\* A report without optional arguments in which scorers that read only the
\* texts and the framework left 0.5.
C2_Witness ==
    \E c \in DOMAIN calls :
        /\ Returned(c)
        /\ OptionalAbsent(calls[c].args)
        /\ calls[c].metrics["task_completion"].score # 50
        /\ calls[c].metrics["implementation_effort"].score # 50
        /\ calls[c].metrics["accuracy"].score = 50

\* C3: a returned report has exactly the fourteen keys, and every value
\* carries a 'score' and a 'details' field.
C3_ReportShape ==
    \A c \in DOMAIN calls :
        Returned(c) =>
            /\ DOMAIN calls[c].metrics = ReportKeys
            /\ \A k \in ReportKeys :
                   {"score", "details"} \subseteq DOMAIN calls[c].metrics[k]

\* A report for a turn with a snapshot and a tool-call count.
C3_Witness ==
    \E c \in DOMAIN calls :
        /\ Returned(c)
        /\ ~Absent(calls[c].args.weather_data_used)
        /\ ~Absent(calls[c].args.tool_call_count)
        /\ Cardinality(DOMAIN calls[c].metrics) = 14

\* C4: a scorer whose optional input is absent returns the neutral 0.5 with
\* an explanatory details string, whatever the query and the response:
\* accuracy without a snapshot (factual_errors empty), context_retention
\* with the history absent or empty, adaptation_quality without a preference
\* state, response_time without a latency (level 'unknown'), tool_call_count
\* without a count.
C4_NeutralWhenInputAbsent ==
    \A c \in DOMAIN calls :
        LET a == calls[c].args
            m == calls[c].metrics
        IN  /\ "accuracy" \in DOMAIN m /\ Absent(a.weather_data_used) =>
                /\ m["accuracy"].score = 50
                /\ m["accuracy"].details = "No weather data available for comparison"
                /\ m["accuracy"].factual_errors = <<>>
            /\ "context_retention" \in DOMAIN m
                 /\ (Absent(a.conversation_history) \/ a.conversation_history = PyList(<<>>)) =>
                /\ m["context_retention"].score = 50
                /\ m["context_retention"].details =
                       "No conversation history available for context retention evaluation"
            /\ "adaptation_quality" \in DOMAIN m /\ Absent(a.user_preferences) =>
                /\ m["adaptation_quality"].score = 50
                /\ m["adaptation_quality"].details =
                       "No user preferences available for adaptation evaluation"
            /\ "response_time" \in DOMAIN m /\ Absent(a.response_time) =>
                /\ m["response_time"].score = 50
                /\ m["response_time"].details = "Response time not available"
                /\ m["response_time"].efficiency_level = "unknown"
            /\ "tool_call_count" \in DOMAIN m /\ Absent(a.tool_call_count) =>
                /\ m["tool_call_count"].score = 50
                /\ m["tool_call_count"].details = "Tool call count not available"

\* A report for a turn with an empty history, a preference state and a
\* snapshot, but no latency.
C4_Witness ==
    \E c \in DOMAIN calls :
        /\ Returned(c)
        /\ calls[c].args.conversation_history = PyList(<<>>)
        /\ ~Absent(calls[c].args.user_preferences)
        /\ Absent(calls[c].args.response_time)
        /\ calls[c].metrics["context_retention"].score = 50
        /\ calls[c].metrics["accuracy"].score # 50

\* C5 as stated: no input, however malformed, makes evaluate_response raise.
C5_NeverRaises ==
    \A c \in DOMAIN calls : calls[c].status # "raised"

----------------------------------------------------------------------------
(* Properties of concurrent and repeated calls under Spec *)

\* C6: two calls with identical inputs, on the same evaluator or on two
\* separately constructed ones and in any order relative to other calls,
\* return identical reports.
C6_Deterministic ==
    \A c1, c2 \in DOMAIN calls :
        /\ Returned(c1)
        /\ Returned(c2)
        /\ calls[c1].args = calls[c2].args
        => calls[c1].metrics = calls[c2].metrics

\* Two finished calls with identical inputs on separately constructed
\* evaluators.
C6_Witness ==
    \E c1, c2 \in DOMAIN calls :
        /\ c1 # c2
        /\ Returned(c1)
        /\ Returned(c2)
        /\ calls[c1].self # calls[c2].self
        /\ calls[c1].args = calls[c2].args
        /\ ~Absent(calls[c1].args.weather_data_used)

\* The report evaluate_response returns for the arguments a when it runs
\* alone on a freshly constructed evaluator.
AloneReport(a) == [k \in ReportKeys |-> Scorer(k, __init__, a)]

\* C7: no step of any call changes the framework-characteristics table or
\* the arguments of a call in flight, and under every interleaving of
\* concurrent calls each call returns the report it returns when run alone.
C7_CallsAreIsolated ==
    [][/\ evaluators' = evaluators
       /\ \A c \in DOMAIN calls :
              calls[c].status = "running" =>
                  /\ calls'[c].args = calls[c].args
                  /\ calls'[c].status = "returned" =>
                         calls'[c].metrics = AloneReport(calls[c].args)]_vars

\* Two calls in flight on one evaluator, each part-way through its scorers,
\* while the report of neither is complete.
C7_Witness ==
    \E c1, c2 \in DOMAIN calls :
        /\ c1 # c2
        /\ calls[c1].status = "running"
        /\ calls[c2].status = "running"
        /\ calls[c1].self = calls[c2].self
        /\ calls[c1].args # calls[c2].args
        /\ calls[c1].pc \in 2..Len(MetricOrder)
        /\ calls[c2].pc \in 2..Len(MetricOrder)
        /\ calls[c1].pc # calls[c2].pc

----------------------------------------------------------------------------
(* Properties of the response-time scorer under SpecTime *)

\* The latency-to-score curve in hundredths, before rounding, as the
\* fraction num / den for a latency of t tenths of a second.
CurveNum(t) ==
    IF t < 20 THEN 100
    ELSE IF t < 50 THEN 3 * 90 - 2 * (t - 20)
    ELSE IF t < 100 THEN 5 * 70 - 2 * (t - 50)
    ELSE IF 5 * 50 - (t - 100) > 5 * 30 THEN 5 * 50 - (t - 100)
    ELSE 5 * 30
CurveDen(t) == IF t < 20 THEN 1 ELSE IF t < 50 THEN 3 ELSE 5

----------------------------------------------------------------------------
(* Properties of the tool-call-count scorer under SpecTool *)

\* C9: the tool-call-count score is the step function 0 -> 0.5 'no_calls',
\* 1-2 -> 1.0 'optimal', 3-4 -> 0.8 'good', 5-6 -> 0.6 'acceptable', more
\* than 6 -> 0.4 'inefficient', non-increasing for counts of at least 1.
C9_ToolCallSteps ==
    \A c \in DOMAIN calls :
        Entered(c) /\ calls[c].pc > 7 /\ ~Absent(calls[c].args.tool_call_count) =>
            LET n == calls[c].args.tool_call_count.v
                m == calls[c].metrics["tool_call_count"]
                r == <<m.score, m.efficiency_level>>
            IN  /\ n = 0 => r = <<50, "no_calls">>
                /\ n \in 1..2 => r = <<100, "optimal">>
                /\ n \in 3..4 => r = <<80, "good">>
                /\ n \in 5..6 => r = <<60, "acceptable">>
                /\ n > 6 => r = <<40, "inefficient">>
                /\ \A u \in 1..n : _evaluate_tool_call_count(PyNum(u)).score >= m.score

\* A report for nine tool calls.
C9_Witness ==
    \E c \in DOMAIN calls :
        /\ Returned(c)
        /\ calls[c].args.tool_call_count = PyNum(9)
        /\ calls[c].metrics["tool_call_count"].score = 40
        /\ calls[c].metrics["tool_call_count"].efficiency_level = "inefficient"

----------------------------------------------------------------------------
(* Properties of the accuracy scorer under SpecAccuracy *)

\* The temperature each of TemperatureResponses states in a form that
\* temp_patterns recognises, in tenths of a degree; none for the last.
StatedTemperature == <<<<150>>, <<125>>, <<80>>, <<200>>, <<90>>, <<>>>>

\* C10: with a current-conditions snapshot the accuracy score is 1.0 minus
\* the penalties applied, and factual_errors has one entry per penalty: 0.3
\* when the temperature extracted from the response is more than 2 degrees
\* from the actual one, 0.1 when more than 1 and at most 2, none when at
\* most 1 or no temperature is found, 0.2 when no keyword of the expected
\* condition's synonym set occurs in the response.  Actual 10.0 / rain and
\* "It's 15°C and sunny today" give 0.5 with two entries.
C10_CurrentConditionsAccuracy ==
    \A c \in DOMAIN calls :
        \A i \in 1..Len(TemperatureResponses) :
            /\ Entered(c)
            /\ calls[c].pc > 1
            /\ calls[c].args.response = TemperatureResponses[i]
            /\ ~Absent(calls[c].args.weather_data_used)
            =>
            LET current == calls[c].args.weather_data_used.v.current.v
                actual == current.temperature.v
                condition == current.main_condition.v
                m == calls[c].metrics["accuracy"]
                said == StatedTemperature[i]
                off == IF said = <<>> THEN 0
                       ELSE IF said[1] >= actual THEN said[1] - actual
                       ELSE actual - said[1]
                temperature_penalty == IF off > 20 THEN 30 ELSE IF off > 10 THEN 10 ELSE 0
                condition_penalty ==
                    IF condition \in DOMAIN condition_keywords
                          /\ \A j \in DOMAIN condition_keywords[condition] :
                                 ~Contains(Lower(calls[c].args.response),
                                           condition_keywords[condition][j])
                    THEN 20 ELSE 0
            IN  /\ m.score = 100 - temperature_penalty - condition_penalty
                /\ Len(m.factual_errors) = (IF temperature_penalty > 0 THEN 1 ELSE 0)
                                           + (IF condition_penalty > 0 THEN 1 ELSE 0)
                /\ i = 1 /\ actual = 100 /\ condition = "rain" =>
                       m.score = 50 /\ Len(m.factual_errors) = 2

\* The report for "It's 15°C and sunny today" against 10.0 degrees and rain.
C10_Witness ==
    \E c \in DOMAIN calls :
        /\ Returned(c)
        /\ calls[c].args.response = "It's 15°C and sunny today"
        /\ calls[c].args.weather_data_used = CurrentWeather(PyNum(100), PyStr("rain"))
        /\ calls[c].metrics["accuracy"].score = 50
        /\ Len(calls[c].metrics["accuracy"].factual_errors) = 2

----------------------------------------------------------------------------
(* Properties of the accuracy scorer's forecast check under SpecEval *)

\* The accuracy result of a call that got past the accuracy scorer.
Accuracy(c) == calls[c].metrics["accuracy"]

\* The query asks about the forecast and the response does not speak of it.
ForecastIgnored(a) ==
    /\ \E i \in DOMAIN forecast_keywords :
           Contains(Lower(a.user_query), forecast_keywords[i])
    /\ \A i \in DOMAIN forecast_keywords :
           ~Contains(Lower(a.response), forecast_keywords[i])

\* The snapshot is a non-empty record; it has the forecast shape when it
\* holds one of the two forecast keys.
SnapshotPresent(a) == a.weather_data_used.t = "dict" /\ a.weather_data_used.v # <<>>
ForecastShape(a) ==
    /\ SnapshotPresent(a)
    /\ \/ "daily_summaries" \in DOMAIN a.weather_data_used.v
       \/ "detailed_forecast" \in DOMAIN a.weather_data_used.v

\* The penalty a reason of factual_errors stands for, in hundredths.
ReasonPenalty(reason) ==
    IF SubSeq(reason, 1, 20) = "Temperature mismatch" THEN 30
    ELSE IF SubSeq(reason, 1, 24) = "Temperature slightly off" THEN 10
    ELSE 20

\* C11 as stated: whenever a snapshot of either shape is present, the query
\* has a forecast-intent keyword and the response has no forecast keyword,
\* 'Forecast query not addressed' is among the factual errors.
C11_ForecastPenaltyForEitherShape ==
    \A c \in DOMAIN calls :
        /\ calls[c].pc > 1
        /\ SnapshotPresent(calls[c].args)
        /\ ForecastIgnored(calls[c].args)
        => \E i \in DOMAIN Accuracy(c).factual_errors :
               Accuracy(c).factual_errors[i] = "Forecast query not addressed"

\* C11 amended: the forecast check is made only for a snapshot that holds
\* daily_summaries or detailed_forecast.  For such a snapshot an ignored
\* forecast query adds 'Forecast query not addressed' as the last factual
\* error and takes 0.2 off the score, which is 1.0 minus the penalties of
\* all reasons listed; for a snapshot without those keys the reason is
\* never listed.
C11_ForecastPenaltyOnForecastShape ==
    \A c \in DOMAIN calls :
        calls[c].pc > 1 /\ SnapshotPresent(calls[c].args) =>
            LET errors == Accuracy(c).factual_errors
                listed == \E i \in DOMAIN errors :
                              errors[i] = "Forecast query not addressed"
                total == IF errors = <<>> THEN 0
                         ELSE IF Len(errors) = 1 THEN ReasonPenalty(errors[1])
                         ELSE IF Len(errors) = 2
                         THEN ReasonPenalty(errors[1]) + ReasonPenalty(errors[2])
                         ELSE ReasonPenalty(errors[1]) + ReasonPenalty(errors[2])
                                + ReasonPenalty(errors[3])
            IN  /\ Len(errors) <= 3
                /\ Accuracy(c).score = 100 - total
                /\ listed <=> ForecastShape(calls[c].args) /\ ForecastIgnored(calls[c].args)
                /\ listed => errors[Len(errors)] = "Forecast query not addressed"

\* A forecast-shaped snapshot, a query about tomorrow and a response about
\* today only: the temperature mismatch and the forecast penalty leave 0.5.
C11_Witness ==
    \E c \in DOMAIN calls :
        /\ Returned(c)
        /\ ForecastShape(calls[c].args)
        /\ ForecastIgnored(calls[c].args)
        /\ "current" \in DOMAIN calls[c].args.weather_data_used.v
        /\ Accuracy(c).score = 50
        /\ Accuracy(c).factual_errors[2] = "Forecast query not addressed"

----------------------------------------------------------------------------
(* Properties of the task-completion scorer under SpecText *)

Completion(c) == calls[c].metrics["task_completion"]

Apologises(t) ==
    AnyIn(Lower(t), <<"error", "sorry", "couldn't", "can't", "unable", "failed",
                      "not available", "not found", "could not", "i'm sorry",
                      "apologize">>)

MentionsWeather(t) ==
    AnyIn(Lower(t), <<"weather", "temperature", "forecast", "rain", "sunny", "wind",
                      "humidity", "umbrella", "jacket", "temp", "degrees">>)

Advises(t) ==
    AnyIn(Lower(t), <<"recommend", "suggest", "should", "umbrella", "jacket",
                      "outdoor", "indoor", "wear", "bring", "advise", "consider">>)

\* The score the rules give in their order of precedence, for a given
\* reading of "near-empty".
CompletionRule(a, near_empty) ==
    IF Len(a.response) < 100 /\ Apologises(a.response) THEN 20
    ELSE IF near_empty THEN 10
    ELSE IF MentionsWeather(a.user_query) /\ ~MentionsWeather(a.response) THEN 40
    ELSE 50 + (IF HasDigit(a.response) THEN 20 ELSE 0)
            + (IF Advises(a.response) THEN 20 ELSE 0)
            + (IF Len(a.response) > 100 THEN 10 ELSE 0)

\* C12 as stated: the rules apply in the order error (0.2), shorter than 20
\* characters (0.1), weather query without weather words (0.4), additive
\* score; completed is true exactly when the score is at least 0.7.
C12_ShortByRawLength ==
    \A c \in DOMAIN calls :
        Returned(c) =>
            /\ Completion(c).score = CompletionRule(calls[c].args, Len(calls[c].args.response) < 20)
            /\ Completion(c).completed <=> Completion(c).score >= 70

\* C12, amended: the same order of rules, where the second rule measures the
\* response with its surrounding whitespace removed.
C12_ShortByStrippedLength ==
    \A c \in DOMAIN calls :
        Returned(c) =>
            /\ Completion(c).score = CompletionRule(calls[c].args, StripLen(calls[c].args.response) < 20)
            /\ Completion(c).completed <=> Completion(c).score >= 70

\* A padded response of 20 characters or more is scored as near-empty.
C12_Witness ==
    \E c \in DOMAIN calls :
        /\ Returned(c)
        /\ Len(calls[c].args.response) >= 20
        /\ StripLen(calls[c].args.response) < 20
        /\ ~Apologises(calls[c].args.response)
        /\ Completion(c).score = 10
        /\ ~Completion(c).completed

----------------------------------------------------------------------------
(* Properties of the adaptation scorer under SpecAdaptation *)

Adaptation(c) == calls[c].metrics["adaptation_quality"]

\* The learned count of a preference state that is a mapping: its
\* learned_from_conversations entry, 0 when it has none.
LearnedCount(p) ==
    IF "learned_from_conversations" \in DOMAIN p.v
    THEN p.v["learned_from_conversations"].v ELSE 0

\* Every adaptation trigger is in the text.
EveryTrigger(t) ==
    /\ Contains(Lower(t), "coat") /\ Contains(Lower(t), "cold")
    /\ Contains(Lower(t), "rain") /\ Contains(Lower(t), "umbrella")
    /\ Contains(Lower(t), "indoor") /\ Contains(Lower(t), "shade")
    /\ Contains(Lower(t), "preference")

\* C13: with a learned count of zero the adaptation score is exactly 0.5 and
\* adaptations_detected is empty, whatever flags are set and whatever the
\* response says.
C13_NothingLearnedIsNeutral ==
    \A c \in DOMAIN calls :
        /\ Returned(c)
        /\ calls[c].args.user_preferences.t = "dict"
        /\ LearnedCount(calls[c].args.user_preferences) = 0
        => /\ Adaptation(c).score = 50
           /\ Adaptation(c).adaptations_detected = <<>>

\* Count zero, every flag set, every trigger in the response: still 0.5.
C13_Witness ==
    \E c \in DOMAIN calls :
        /\ Returned(c)
        /\ calls[c].args.user_preferences = GADKState(FlagsOf(31, flag_names), 0)
        /\ EveryTrigger(calls[c].args.response)
        /\ Adaptation(c).score = 50
        /\ Adaptation(c).adaptations_detected = <<>>

\* C14: for every response and every learned count above zero, two
\* preference states that express the same flags, one in each schema, are
\* normalised to the same flag set and get the same adaptation report.
C14_SchemaIndependent ==
    \A c \in DOMAIN calls :
        Returned(c) =>
            \A k \in 0..15, n \in 1..MaxLearned :
                calls[c].args.user_preferences = GADKState(FlagsOf(k, ms_flag_names), n)
                => /\ LearnedPrefs(GADKState(FlagsOf(k, ms_flag_names), n).v)
                        = LearnedPrefs(MSState(FlagsOf(k, ms_flag_names), n).v)
                   /\ Adaptation(c) = _evaluate_adaptation_quality(calls[c].args.response, calls[c].args.user_query, MSState(FlagsOf(k, ms_flag_names), n))

----------------------------------------------------------------------------
(* Properties of the framework scorers under SpecEval *)

KnownFrameworks == {"GADK", "MS"}

\* C15: for a framework identifier other than the two known ones,
\* implementation_effort, integration_simplicity and debuggability each
\* report the neutral score 0.5, the detail 'Framework not recognized' and
\* the level 'unknown', whatever the response is.
C15_UnknownFrameworkIsNeutral ==
    \A c \in DOMAIN calls :
        Returned(c) /\ calls[c].args.framework_name \notin KnownFrameworks
        => /\ calls[c].metrics["implementation_effort"]
                = [score |-> 50, details |-> "Framework not recognized",
                   effort_level |-> "unknown"]
           /\ calls[c].metrics["integration_simplicity"]
                = [score |-> 50, details |-> "Framework not recognized",
                   simplicity_level |-> "unknown"]
           /\ calls[c].metrics["debuggability"]
                = [score |-> 50, details |-> "Framework not recognized",
                   debuggability_level |-> "unknown"]

\* An unknown framework whose response carries an error text.
C15_Witness ==
    \E c \in DOMAIN calls :
        /\ Returned(c)
        /\ calls[c].args.framework_name = "LangChain"
        /\ Contains(calls[c].args.response, "Error:")
        /\ calls[c].metrics["debuggability"].score = 50
        /\ calls[c].metrics["debuggability"].debuggability_level = "unknown"
        /\ calls[c].metrics["implementation_effort"].score = 50
        /\ calls[c].metrics["integration_simplicity"].score = 50

----------------------------------------------------------------------------
(* Properties of the chat handlers under SpecChat *)

\* The request of application a has its agent and runner.
HasRunner(a) == requests[a].pc \in {"run", "learn", "invalidate"}

\* C16: when a chat turn of a user finds a cached agent whose timestamp is
\* not the last_updated of the user's stored preferences, it builds a new
\* agent and runner from the stored preferences and caches them under the
\* new timestamp, instead of taking the cached runner.
C16_ChangedPreferencesRebuild ==
    [][\A a \in Apps :
          /\ requests[a].pc = "agent"
          /\ requests'[a].pc = "run"
          /\ _agent_cache[a][requests[a].user_id].cached
          /\ _agent_cache[a][requests[a].user_id].stamp # requests[a].current_prefs_timestamp
          => /\ requests'[a].should_create_agent
             /\ requests'[a].runner = preferences_files[requests[a].user_id]
             /\ _agent_cache'[a][requests[a].user_id] = Cached(preferences_files[requests[a].user_id], requests[a].current_prefs_timestamp)
             /\ _runner_cache'[a][requests[a].user_id] = _agent_cache'[a][requests[a].user_id]]_vars

\* After a failed turn left an agent cached and the preferences were saved
\* again, the user's next turn has built a new agent.
C16_Witness ==
    \E a \in Apps :
        /\ HasRunner(a)
        /\ requests[a].cached_timestamp # None
        /\ requests[a].cached_timestamp # requests[a].current_prefs_timestamp
        /\ requests[a].should_create_agent
        /\ _agent_cache[a][requests[a].user_id].stamp = requests[a].current_prefs_timestamp
        /\ requests[a].runner > requests[a].cached_timestamp

----------------------------------------------------------------------------
(* Properties of the planning, recovery and ambiguity scorers under SpecText *)

Planning(c) == calls[c].metrics["action_planning"]
Recovery(c) == calls[c].metrics["error_recovery"]
Ambiguity(c) == calls[c].metrics["ambiguity_handling"]

\* A text is one of the entries of a list of texts.
Listed(text, texts) == \E i \in 1..Len(texts) : texts[i] = text

\* The query is a weather query for the planning scorer.
PlanningQuery(t) ==
    AnyIn(Lower(t), <<"weather", "temperature", "forecast", "rain", "sunny", "wind",
                      "humidity", "umbrella", "jacket", "temp", "degrees", "outdoor",
                      "activity", "plan">>)

\* The response holds quantitative weather information and recommendation
\* language.
InformsAndRecommends(t) ==
    /\ AnyIn(Lower(t), <<"°c", "°f", "degrees", "temperature", "humidity", "wind speed",
                         "forecast">>)
    /\ AnyIn(Lower(t), <<"recommend", "suggest", "should", "umbrella", "jacket", "wear",
                         "bring">>)

\* C17: a weather query whose response holds both weather information and
\* recommendation language always gets one of the two sequencing
\* strengths, never none.
C17_SequencingAlwaysAwarded ==
    \A c \in DOMAIN calls :
        /\ Returned(c)
        /\ PlanningQuery(calls[c].args.user_query)
        /\ InformsAndRecommends(calls[c].args.response)
        => \/ Listed("Logical sequence: weather info before recommendations", Planning(c).strengths)
           \/ Listed("Both weather info and recommendations present", Planning(c).strengths)

\* C18: a response without any error indicator, with weather data
\* available, has the error-recovery score 1.0, whatever else it says.
C18_QuietRecoveryIsPerfect ==
    \A c \in DOMAIN calls :
        /\ Returned(c)
        /\ ~Apologises(calls[c].args.response)
        /\ Truthy(calls[c].args.weather_data_used)
        => Recovery(c).score = 100

\* The query is clear: none of the four ambiguity heuristics fires.
ClearQuery(t) ==
    /\ ~AmbiguousIndicators(t).missing_location
    /\ ~AmbiguousIndicators(t).missing_time
    /\ ~AmbiguousIndicators(t).vague_request
    /\ ~AmbiguousIndicators(t).unclear_intent

\* The response is substantive and weather-relevant.
Substantive(t) ==
    /\ Len(t) > 50
    /\ AnyIn(Lower(t), <<"weather", "temperature", "forecast", "recommend">>)

\* C19: a clear query with a substantive, weather-relevant response has an
\* ambiguity-handling score of at least 0.8.
C19_ClearQueryFloor ==
    \A c \in DOMAIN calls :
        /\ Returned(c)
        /\ ClearQuery(calls[c].args.user_query)
        /\ Substantive(calls[c].args.response)
        => Ambiguity(c).score >= 80

\* The response asks for the location.
AsksLocation(t) ==
    AnyIn(Lower(t), <<"which city", "what city", "where", "location", "city name",
                      "please specify the city", "could you tell me the city">>)

\* C20: when the query lacks a location token, is otherwise clear, and the
\* response never asks for the location, the issue 'Does not request
\* missing location' is recorded.
C20_MissingLocationPenalised ==
    \A c \in DOMAIN calls :
        /\ Returned(c)
        /\ AmbiguousIndicators(calls[c].args.user_query).missing_location
        /\ ~AmbiguousIndicators(calls[c].args.user_query).missing_time
        /\ ~AmbiguousIndicators(calls[c].args.user_query).vague_request
        /\ ~AmbiguousIndicators(calls[c].args.user_query).unclear_intent
        /\ ~AsksLocation(calls[c].args.response)
        => Listed("Does not request missing location", Ambiguity(c).issues)

----------------------------------------------------------------------------
(* Properties of the action-planning scorer under SpecPlanning *)

\* C21: when the planning scorer flags no issue and records at least one
\* strength, the score is at least 0.8, for weather queries and others.
C21_PlanningFloor ==
    \A c \in DOMAIN calls :
        /\ Returned(c)
        /\ Planning(c).issues = <<>>
        /\ Planning(c).strengths # <<>>
        => Planning(c).score >= 80

\* A greeting answered without tool calls: one strength worth 0.1, raised
\* to 0.8.
C21_Witness ==
    \E c \in DOMAIN calls :
        /\ Returned(c)
        /\ ~PlanningQuery(calls[c].args.user_query)
        /\ Planning(c).issues = <<>>
        /\ Planning(c).strengths = <<"No unnecessary tool calls">>
        /\ Planning(c).score = 80

\* C28: the planning score never exceeds 0.9; with an issue flagged it is
\* at most 0.7; it is at least 0.8 exactly when no issue is flagged and a
\* strength is recorded; it is 0.0 when neither is recorded.
C28_PlanningBounds ==
    \A c \in DOMAIN calls :
        Returned(c) =>
            /\ Planning(c).score <= 90
            /\ Planning(c).issues # <<>> => Planning(c).score <= 70
            /\ Planning(c).score >= 80
                  <=> (Planning(c).issues = <<>> /\ Planning(c).strengths # <<>>)
            /\ (Planning(c).issues = <<>> /\ Planning(c).strengths = <<>>)
                  => Planning(c).score = 0

\* The largest score: data used, weather before advice, tools called, a
\* flow word.
C28_Witness ==
    \E c \in DOMAIN calls :
        /\ Returned(c)
        /\ Len(Planning(c).strengths) = 4
        /\ Planning(c).issues = <<>>
        /\ Planning(c).score = 90

----------------------------------------------------------------------------
(* Properties of the context-retention scorer under SpecEval *)

Retention(c) == calls[c].metrics["context_retention"]

\* The turns of a history that is a non-empty list.
HasHistory(a) == a.conversation_history.t = "list" /\ a.conversation_history.v # <<>>
Turns(a) == a.conversation_history.v

\* What the earlier user turns mention.
EarlierCities(a) == UNION {TurnCities(Turns(a)[i]) : i \in 1..Len(Turns(a))}
EarlierPreferences(a) == UNION {TurnPreferences(Turns(a)[i]) : i \in 1..Len(Turns(a))}
EarlierDates(a) == UNION {TurnDates(Turns(a)[i]) : i \in 1..Len(Turns(a))}

\* An earlier city reappears in the response; the query names an earlier
\* city the response ignores.
CityRetained(a) == \E city \in EarlierCities(a) : Contains(Lower(a.response), Lower(city))
CityIgnored(a) ==
    /\ ~CityRetained(a)
    /\ \E city \in EarlierCities(a) : Contains(Lower(a.user_query), Lower(city))

\* Preference-topic language with weather-topic language in the response.
PreferenceLanguage(t) ==
    /\ AnyIn(Lower(t), <<"prefer", "like", "recommend">>)
    /\ AnyIn(Lower(t), <<"temperature", "weather", "outdoor", "indoor">>)

DateRetained(a) == \E day \in EarlierDates(a) : Contains(Lower(a.response), day)

\* The report for a given decision on the preference bonus.
RetentionRule(a, preferences_retained) ==
    [score |-> Clamp(50 + (IF CityRetained(a) THEN 20 ELSE 0)
                        - (IF CityIgnored(a) THEN 10 ELSE 0)
                        + (IF preferences_retained THEN 15 ELSE 0)
                        + (IF DateRetained(a) THEN 15 ELSE 0)),
     retained_items |-> (IF CityRetained(a) THEN <<"city">> ELSE <<>>)
                        \o (IF preferences_retained THEN <<"preferences">> ELSE <<>>)
                        \o (IF DateRetained(a) THEN <<"date/time">> ELSE <<>>)]

\* C22 as stated: with a non-empty history the score is 0.5, +0.2 for a
\* retained city, -0.1 for an ignored one, +0.15 whenever the response
\* holds preference language with weather language, +0.15 for a retained
\* day, clamped; retained_items lists the bonuses applied.
C22_RetentionAsStated ==
    \A c \in DOMAIN calls :
        Returned(c) /\ HasHistory(calls[c].args)
        => /\ Retention(c).score = RetentionRule(calls[c].args, PreferenceLanguage(calls[c].args.response)).score
           /\ Retention(c).retained_items = RetentionRule(calls[c].args, PreferenceLanguage(calls[c].args.response)).retained_items

\* C22, amended: the preference bonus is applied only when an earlier user
\* turn stated a preference.
C22_RetentionOfStatedPreferences ==
    \A c \in DOMAIN calls :
        Returned(c) /\ HasHistory(calls[c].args)
        => /\ Retention(c).score = RetentionRule(calls[c].args, EarlierPreferences(calls[c].args) # {} /\ PreferenceLanguage(calls[c].args.response)).score
           /\ Retention(c).retained_items = RetentionRule(calls[c].args, EarlierPreferences(calls[c].args) # {} /\ PreferenceLanguage(calls[c].args.response)).retained_items

\* A history without a stated preference: the preference language of the
\* response earns nothing, while the query's city is ignored.
C22_Witness ==
    \E c \in DOMAIN calls :
        /\ Returned(c)
        /\ HasHistory(calls[c].args)
        /\ EarlierPreferences(calls[c].args) = {}
        /\ PreferenceLanguage(calls[c].args.response)
        /\ ~Listed("preferences", Retention(c).retained_items)

----------------------------------------------------------------------------
(* Properties of the recommendation-quality scorer under SpecEval *)

Recommendation(c) == calls[c].metrics["recommendation_quality"]

recommendation_words ==
    <<"recommend", "suggest", "should", "advise", "consider", "umbrella", "jacket",
      "coat", "sweater", "raincoat", "outdoor", "indoor", "wear", "bring", "take",
      "prepare">>

\* The number of recommendation keywords the text holds.
Recommendations(t) ==
    Cardinality({i \in 1..Len(recommendation_words) : Contains(Lower(t), recommendation_words[i])})

\* The query explicitly asks for advice.
AsksAdvice(t) ==
    AnyIn(Lower(t), <<"should", "recommend", "suggest", "what should", "what to wear",
                      "umbrella", "jacket", "outdoor", "indoor", "advice", "help">>)

SpecificItem(t) ==
    AnyIn(Lower(t), <<"umbrella", "jacket", "coat", "sweater", "raincoat", "boots", "hat",
                      "gloves">>)

CausalLanguage(t) ==
    AnyIn(Lower(t), <<"because", "due to", "since", "as", "given that", "considering">>)

\* C23: without a recommendation keyword the score is 0.2 when the query
\* asked for advice and 0.5 when it did not; with one, it is 0.5 + 0.2
\* (specific item) + 0.2 (causal language) + 0.1 (three or more keywords),
\* and the keyword count is reported; 0.2 is scored in no other case.
C23_RecommendationScore ==
    \A c \in DOMAIN calls :
        Returned(c) =>
            LET query == calls[c].args.user_query
                response == calls[c].args.response
            IN /\ Recommendations(response) = 0 /\ AsksAdvice(query)
                    => Recommendation(c).score = 20
               /\ Recommendations(response) = 0 /\ ~AsksAdvice(query)
                    => Recommendation(c).score = 50
               /\ Recommendations(response) > 0
                    => /\ Recommendation(c).score
                            = 50 + (IF SpecificItem(response) THEN 20 ELSE 0)
                                 + (IF CausalLanguage(response) THEN 20 ELSE 0)
                                 + (IF Recommendations(response) >= 3 THEN 10 ELSE 0)
                       /\ Recommendation(c).recommendation_count = Recommendations(response)
                       /\ Recommendation(c).recommendation_count >= 1
               /\ Recommendation(c).score = 20
                    <=> (Recommendations(response) = 0 /\ AsksAdvice(query))

\* A response with exactly two recommendation keywords, one of them a
\* specific item, without causal language.
C23_Witness ==
    \E c \in DOMAIN calls :
        /\ Returned(c)
        /\ Recommendations(calls[c].args.response) = 2
        /\ SpecificItem(calls[c].args.response)
        /\ ~CausalLanguage(calls[c].args.response)
        /\ Recommendation(c).score = 70
        /\ Recommendation(c).recommendation_count = 2

----------------------------------------------------------------------------
(* Properties of the repeatability scorer under SpecRepeat *)

Repeatability(c) == calls[c].metrics["repeatability"]

\* The lower-cased whitespace tokens of more than 3 characters.
LongTokens(t) ==
    {Lower(Split(t)[i]) : i \in {j \in 1..Len(Split(t)) : Len(Split(t)[j]) > 3}}

\* The earlier responses of the turns that share at least 2 keywords with
\* the query.
PriorResponses(a) ==
    IF ~HasHistory(a) THEN {}
    ELSE {Lower(TurnAssistant(Turns(a)[i])) :
            i \in {j \in 1..Len(Turns(a)) :
                     Cardinality(LongTokens(TurnUser(Turns(a)[j]))
                                 \cap LongTokens(a.user_query)) >= 2}}

TemperatureMention(t) == AnyIn(Lower(t), <<"temperature", "degrees">>)
RecommendationLanguage(t) == AnyIn(Lower(t), <<"recommend", "suggest", "should">>)
ItemMention(t) == AnyIn(Lower(t), <<"umbrella", "jacket", "wear">>)

\* The sum awarded for the features shared with the earlier responses.
SharedFeatures(a) ==
    (IF TemperatureMention(a.response)
          /\ \E p \in PriorResponses(a) : TemperatureMention(p) THEN 30 ELSE 0)
    + (IF RecommendationLanguage(a.response)
            /\ \E p \in PriorResponses(a) : RecommendationLanguage(p) THEN 30 ELSE 0)
    + (IF ItemMention(a.response)
            /\ \E p \in PriorResponses(a) : ItemMention(p) THEN 20 ELSE 0)

Hedges(t) == AnyIn(Lower(t), <<"random", "maybe", "perhaps", "might be", "could be different">>)

FlatPenalties(t) ==
    (IF Hedges(t) THEN 10 ELSE 0)
    + (IF Len(t) < 30 THEN 10 ELSE IF Len(t) > 1000 THEN 5 ELSE 0)

WeatherStructure(t) == AnyIn(Lower(t), <<"weather", "temperature", "forecast", "recommend">>)

\* C24: with a similar earlier turn the score before the penalties is 0.5
\* plus 0.3 / 0.3 / 0.2 for each feature shared with the earlier responses
\* (0.5 when none is shared); without any history it is 0.7, plus 0.1 for a
\* response with weather structure; the flat penalties are subtracted and the
\* result is clamped to [0, 1].
C24_RepeatabilityScore ==
    \A c \in DOMAIN calls :
        Returned(c) =>
            LET a == calls[c].args IN
            /\ PriorResponses(a) # {}
                 => Repeatability(c).score
                        = Max(0, Min(100, 50 + SharedFeatures(a) - FlatPenalties(a.response)))
            /\ ~HasHistory(a)
                 => Repeatability(c).score
                        = Max(0, Min(100, 70 + (IF WeatherStructure(a.response) THEN 10 ELSE 0)
                                             - FlatPenalties(a.response)))

\* A hedging response that shares only the temperature with the similar
\* earlier response: 0.5 + 0.3 - 0.1.
C24_Witness ==
    \E c \in DOMAIN calls :
        /\ Returned(c)
        /\ PriorResponses(calls[c].args) # {}
        /\ SharedFeatures(calls[c].args) = 30
        /\ Hedges(calls[c].args.response)
        /\ Repeatability(c).score = 70

----------------------------------------------------------------------------
(* Properties of the framework scorers under SpecFramework *)

\* The response carries an error marker.
ErrorMarker(t) == Contains(Lower(t), "error:")

\* The error message is longer than 50 characters and explains itself.
Explains(t) ==
    Len(t) > 50 /\ AnyIn(Lower(t), <<"unable", "could not", "failed", "missing">>)

StaticDebuggability(framework_name) == IF framework_name = "GADK" THEN 100 ELSE 35

\* C25: for GADK and MS the implementation-effort and integration-simplicity
\* results depend on the framework alone (GADK 0.5 'moderate' and 0.8 'very
\* simple', MS 0.8 'very easy' and 0.7 'simple'); debuggability is the static
\* value of the framework (GADK 1.0, MS 0.35) unless the response carries an
\* error marker, which adds 0.1 before the clamp for a descriptive message
\* and takes 0.1 away otherwise.
C25_FrameworkScores ==
    \A c \in DOMAIN calls :
        Returned(c) /\ calls[c].args.framework_name \in {"GADK", "MS"} =>
            LET framework_name == calls[c].args.framework_name
                response == calls[c].args.response
            IN /\ calls[c].metrics["implementation_effort"]
                    = IF framework_name = "GADK"
                      THEN [score |-> 50, details |-> "5 files, medium setup (moderate)",
                            effort_level |-> "moderate", files_count |-> 5,
                            setup_complexity |-> "medium"]
                      ELSE [score |-> 80, details |-> "4 files, low setup (very easy)",
                            effort_level |-> "very easy", files_count |-> 4,
                            setup_complexity |-> "low"]
               /\ calls[c].metrics["integration_simplicity"]
                    = IF framework_name = "GADK"
                      THEN [score |-> 80,
                            details |-> "2 file(s) to modify, built-in memory (very simple)",
                            simplicity_level |-> "very simple", tool_files |-> 2,
                            memory_approach |-> "built_in"]
                      ELSE [score |-> 70,
                            details |-> "1 file(s) to modify, manual memory (simple)",
                            simplicity_level |-> "simple", tool_files |-> 1,
                            memory_approach |-> "manual"]
               /\ calls[c].metrics["debuggability"].score
                    = IF ~ErrorMarker(response) THEN StaticDebuggability(framework_name)
                      ELSE IF Explains(response)
                      THEN Min(100, StaticDebuggability(framework_name) + 10)
                      ELSE Min(100, StaticDebuggability(framework_name) - 10)

\* A short error message with an explanatory word lowers the MS score.
C25_Witness ==
    \E c \in DOMAIN calls :
        /\ Returned(c)
        /\ calls[c].args.framework_name = "MS"
        /\ calls[c].args.response = "error: unable"
        /\ calls[c].metrics["debuggability"].score = 25
        /\ calls[c].metrics["implementation_effort"].score = 80
        /\ calls[c].metrics["integration_simplicity"].score = 70

----------------------------------------------------------------------------
(* Properties of the preference stores under SpecStore *)

\* The stored conversation history of a user of the GADK store.
StoredHistory(user_id) ==
    IF PREFERENCES_DIR[user_id] = NoFile THEN <<>>
    ELSE PREFERENCES_DIR[user_id].v.conversation_history.v

\* The entry a GADK learning call was asked to record.
TurnOf(call) ==
    IF Truthy(call.response)
    THEN [timestamp |-> isoformat(call.now), user_message |-> PyStr(call.user_message),
          response |-> call.response]
    ELSE [timestamp |-> isoformat(call.now), user_message |-> PyStr(call.user_message)]

\* C26: every GADK learn_from_conversation call completes without raising,
\* leaves the turn as the last entry of the user's conversation history and
\* saves the preferences with a fresh last_updated timestamp.
C26_LearningAlwaysCompletes ==
    learning.op = "preferences.learn_from_conversation"
    => /\ learning.exc = ""
       /\ StoredHistory(learning.user_id) # <<>>
       /\ StoredHistory(learning.user_id)[Len(StoredHistory(learning.user_id))]
              = TurnOf(learning)
       /\ PREFERENCES_DIR[learning.user_id].v.last_updated = isoformat(learning.now)
       /\ Get(learning.before.v, "last_updated", PyNone) # isoformat(learning.now)

\* The last min(50, n) entries of a history of n entries.
MostRecent(history) ==
    [i \in 1..Min(50, Len(history)) |-> history[Len(history) - Min(50, Len(history)) + i]]

\* The entry the learning call that ended last added, if it added one.
Added(call) ==
    IF call.op = "preferences.learn_from_conversation" THEN <<TurnOf(call)>>
    ELSE IF call.op = "PreferencesManager.learn_from_conversation"
    THEN <<[timestamp |-> isoformat(call.now), user_message |-> PyStr(call.user_message),
            response |-> call.response]>>
    ELSE IF "insight_text" \in DOMAIN call.conversation_insights
    THEN <<[insight |-> call.conversation_insights.insight_text,
            timestamp |-> Get(call.conversation_insights, "timestamp", PyStr(""))]>>
    ELSE <<>>

\* C27: a stored conversation history never holds more than 50 entries, and
\* after a learning call that saved it holds the most recent entries of the
\* history before the call followed by the entry of the call, in order.
C27_HistoryKeepsMostRecent ==
    /\ \A user_id \in Users : Len(StoredHistory(user_id)) <= 50
    /\ Len(_ms_preferences_manager.v.conversation_history.v) <= 50
    /\ learning.op # "" /\ learning.exc = ""
       => (IF learning.op = "PreferencesManager.learn_from_conversation"
           THEN _ms_preferences_manager.v.conversation_history.v
           ELSE StoredHistory(learning.user_id))
          = MostRecent(learning.before.v.conversation_history.v \o Added(learning))

\* An insight is stored in a history that was full: the oldest entry is
\* gone and the insight is the last of 50 entries.
C27_Witness ==
    /\ learning.op = "preferences.update_preferences_from_conversation"
    /\ "insight_text" \in DOMAIN learning.conversation_insights
    /\ Len(learning.before.v.conversation_history.v) = 50
    /\ Len(StoredHistory(learning.user_id)) = 50
    /\ StoredHistory(learning.user_id)[50].insight = PyStr("prefers sunny days")
    /\ StoredHistory(learning.user_id)[1] = learning.before.v.conversation_history.v[2]

----------------------------------------------------------------------------
(* Properties of the MS preferences under SpecMS *)

\* C29: the preferences of the MS manager never carry a learned count, so
\* every adaptation-quality score computed from them for the MS framework is
\* exactly 0.5 with no adaptation detected, whatever flags were learned and
\* whatever the response says.
C29_MSAdaptationIsNeutral ==
    /\ "learned_from_conversations" \notin DOMAIN _ms_preferences_manager.v
    /\ \A c \in DOMAIN calls :
          Returned(c) /\ calls[c].args.framework_name = "MS"
          => /\ "learned_from_conversations" \notin DOMAIN calls[c].args.user_preferences.v
             /\ Adaptation(c).score = 50
             /\ Adaptation(c).adaptations_detected = <<>>

\* The manager has learned the cold, rain and indoor flags, the response
\* holds every trigger, and the score is still 0.5.
C29_Witness ==
    \E c \in DOMAIN calls :
        /\ Returned(c)
        /\ calls[c].args.framework_name = "MS"
        /\ calls[c].args.user_preferences = _ms_preferences_manager
        /\ _ms_preferences_manager.v.weather_conditions.v.dislikes_cold = PyBool(TRUE)
        /\ _ms_preferences_manager.v.activity_preferences.v.prefers_indoor = PyBool(TRUE)
        /\ EveryTrigger(calls[c].args.response)
        /\ Adaptation(c).score = 50

----------------------------------------------------------------------------
(* Properties of concurrent chat requests under SpecThreads *)

\* The request of the thread has written the agent cache and has not yet
\* deleted the runner entry.
BetweenWriteAndDeletion(t) ==
    threads[t].pc \in {"cache_runner", "run", "learn", "test_agent", "del_agent",
                       "test_runner", "del_runner"}

\* C30: a request that has decided to reuse the cached agent finds the
\* runner of its user in the runner cache, whatever the other requests do,
\* and whenever no request is between its cache write and its cache deletion
\* the two caches hold the same users.
C30_ReuseFindsRunner ==
    /\ \A t \in DOMAIN threads :
          threads[t].pc = "lookup"
          => _runner_cache[threads[t].app][threads[t].user_id].cached
    /\ (\A t \in DOMAIN threads : ~BetweenWriteAndDeletion(t))
       => \A a \in Apps, u \in Users :
             _agent_cache[a][u].cached <=> _runner_cache[a][u].cached

====
